---------------------------- MODULE Spec2Model ----------------------------
(***************************************************************************)
(* Model of the dictation core of priyanshumahey/iv (src-tauri/src):       *)
(*   - vad/smoothed.rs, vad/mod.rs, vad/silero.rs : SmoothedVad            *)
(*   - audio.rs                                   : AudioRecorder + worker *)
(*   - recording_manager.rs                       : RecordingManager       *)
(* The specifications of the module:                                       *)
(*   SpecVad      - one SmoothedVad driven frame by frame                  *)
(*   SpecFilter   - filter_with_vad's loop over the frames of a recording  *)
(*   SpecWorker   - one AudioRecorder, its worker thread and the callback  *)
(*   Spec         - the RecordingManager called from concurrent tasks      *)
(*   SpecResample - resample_to_16k applied to bounded inputs              *)
(*   SpecCallback - the input callback's conversion to mono                *)
(*   SpecConfig   - get_perferred_config applied to bounded devices        *)
(*   SpecWav      - samples_to_wav applied to bounded inputs               *)
(*   SpecLocks    - the manager's two mutexes, acquisition by acquisition  *)
(*   SpecShortcut - the shortcut handler, its release tasks and the UI     *)
(***************************************************************************)
EXTENDS Integers, Sequences, FiniteSets, TLC

VARIABLES
    \* ---- SmoothedVad (vad/smoothed.rs)
    vad,          \* the SmoothedVad under test (record, see NewSmoothedVad)
    vad_out,      \* result of its last push_frame
    fresh,        \* an instance constructed when reset() was last called
    fresh_out,    \* result of the last push_frame on `fresh`
    twin_on,      \* TRUE once reset() has been called (fresh is then fed too)
    hist,         \* the last classified frames: verdict, result, counters
    next_id,      \* identity of the next frame handed to push_frame
    n_pushed,     \* push_frame calls since construction or reset
    n_resets,     \* reset() calls so far
    speech_samples, \* filter_with_vad: speech_samples (frames, in order)
    \* ---- AudioRecorder and its worker thread (audio.rs)
    cmd_tx,       \* AudioRecorder.cmd_tx is Some
    worker_handle,\* AudioRecorder.worker_handle is Some
    device,       \* AudioRecorder.device is Some
    w_pc,         \* where the worker thread is
    sample_q,     \* the sample channel (blocks sent, not yet received)
    cmd_q,        \* the command channel
    is_recording, \* run_recording_loop: is_recording
    buffer,       \* run_recording_loop: buffer (blocks, in order)
    ctl_pc,       \* where the thread calling open/start/stop/close is
    reply,        \* the one-shot reply channel of the Stop in flight
    call_ret,     \* result of the last completed AudioRecorder call
    since_start,  \* blocks sent since the last Start was applied
    due,          \* since_start when the Stop in flight was sent, and
                  \* whether the worker was then waiting in recv_timeout
    n_blocks,     \* blocks the audio callback has produced
    n_ops,        \* AudioRecorder calls made
    \* ---- RecordingManager (recording_manager.rs)
    state,        \* ManagerState
    recorder,     \* the capture slot: Option<AudioRecorder>
    tasks,        \* the stop_and_transcribe invocations in progress
    ret,          \* the last call that returned
    n_engines,    \* AudioRecorders opened so far
    selected_model,   \* selected_model
    current_model_id, \* LocalTranscriber.current_model_id ("none": None)
    vad_enabled,      \* vad_enabled
    vad_model_path,   \* vad_model_path is Some
    \* ---- pure functions, each with its arguments and its result
    rs_in,        \* resample_to_16k: samples and from_rate
    rs_out,       \* resample_to_16k: what the call did
    cb_in,        \* build_stream: the stream's format and channels
    cb_hw,        \* the hardware blocks handed to the callback so far
    cb_q,         \* the blocks the callback sent on the sample channel
    cfg_in,       \* get_perferred_config: what the device reports
    cfg_out,      \* get_perferred_config: the configuration returned
    wav_in,       \* samples_to_wav: samples and sample_rate
    wav_out,      \* samples_to_wav: what the call returned
    \* ---- the two mutexes of RecordingManager, lock by lock
    lk_held,      \* which thread holds the state lock and the slot lock
    lk_th,        \* each thread's operation and its position in it
    wk,           \* the capture worker: the request an operation waits on
    \* ---- the shortcut handler (shortcut.rs)
    sc_state,     \* ManagerState as the handler's calls see it
    sc_ui,        \* the tray icon and the overlay
    sc_key,       \* the shortcut key is held down
    sc_press,     \* where the press handler is
    sc_tasks,     \* the release tasks spawned so far
    sc_n          \* release tasks spawned

vadVars == <<vad, vad_out, fresh, fresh_out, twin_on, hist, next_id,
             n_pushed, n_resets, speech_samples>>

workerVars == <<cmd_tx, worker_handle, device, w_pc, sample_q, cmd_q, is_recording,
                buffer, ctl_pc, reply, call_ret, since_start, due, n_blocks,
                n_ops>>

mgrVars == <<state, recorder, tasks, ret, n_engines, selected_model,
             current_model_id, vad_enabled, vad_model_path>>

fnVars == <<rs_in, rs_out, cb_in, cb_hw, cb_q, cfg_in, cfg_out, wav_in,
            wav_out>>

lockVars == <<lk_held, lk_th, wk>>

scVars == <<sc_state, sc_ui, sc_key, sc_press, sc_tasks, sc_n>>

vars == <<vadVars, workerVars, mgrVars, fnVars, lockVars, scVars>>

Max(a, b) == IF a >= b THEN a ELSE b
Min(a, b) == IF a <= b THEN a ELSE b

(***************************************************************************)
(* Bounds of the model.                                                    *)
(***************************************************************************)
MaxPrefill == 2
MaxHangover == 2
MaxOnset == 2
MaxFrames == 5
MaxResets == 1
MaxBlocks == 3
MaxOps == 4
MaxCycles == 2
MaxCalls == 5
MaxAudio == 2
MaxChunks == 15

(***************************************************************************)
(* vad/mod.rs, vad/silero.rs                                               *)
(***************************************************************************)
VAD_FRAME_SAMPLES == 480

\* recording_manager.rs:296  SileroVad::new(vad_path, 0.5), in percent
SILERO_THRESHOLD == 50

\* Speech probabilities (percent) the engine may compute for a frame.
Probs == {50, 90}

\* A frame handed to push_frame: `len` samples, identified by `id`; `prob`
\* and `engine_ok` are what the Silero engine computes for its samples.
Frames(id) ==
    { [id |-> id, len |-> VAD_FRAME_SAMPLES, prob |-> p, engine_ok |-> TRUE] :
        p \in Probs }
    \cup { [id |-> id, len |-> VAD_FRAME_SAMPLES, prob |-> 90,
            engine_ok |-> FALSE] }

Noise == [tag |-> "Noise", samples |-> <<>>]
Speech(frames) == [tag |-> "Speech", samples |-> frames]
Err == [tag |-> "Err", samples |-> <<>>]
NoResult == [tag |-> "None", samples |-> <<>>]

\* VadFrame::is_speech
is_speech(out) == out.tag = "Speech"

\* Number of f32 samples in a payload made of whole frames.
RECURSIVE SampleCount(_)
SampleCount(frames) ==
    IF frames = <<>> THEN 0
    ELSE Head(frames).len + SampleCount(Tail(frames))

\* SileroVad::push_frame: frame size check, inference, threshold.
SileroAbove(prob, threshold) == prob > threshold

SileroPush(frame) ==
    IF frame.len # VAD_FRAME_SAMPLES THEN Err
    ELSE IF ~frame.engine_ok THEN Err
    ELSE IF SileroAbove(frame.prob, SILERO_THRESHOLD) THEN Speech(<<frame>>)
    ELSE Noise

\* SileroVad keeps the trait's default reset(): fn reset(&mut self) {}
SileroVad == [kind |-> "silero"]

(***************************************************************************)
(* vad/smoothed.rs                                                         *)
(***************************************************************************)
\* SmoothedVad::new
NewSmoothedVad(inner, prefill, hangover, onset) ==
    [ kind             |-> "smoothed",
      inner_vad        |-> inner,
      prefill_frames   |-> prefill,
      hangover_frames  |-> hangover,
      onset_frames     |-> onset,
      frame_buffer     |-> <<>>,
      hangover_counter |-> 0,
      onset_counter    |-> 0,
      in_speech        |-> FALSE,
      temp_out         |-> <<>> ]

\* SmoothedVad::with_defaults
with_defaults(inner) == NewSmoothedVad(inner, 3, 10, 2)

\* push_back followed by `while len > prefill_frames + 1 { pop_front }`
RECURSIVE TrimFront(_, _)
TrimFront(buf, cap) ==
    IF Len(buf) > cap THEN TrimFront(Tail(buf), cap) ELSE buf

\* Off by one: only prefill_frames frames are kept.
MutBufferFrame(buf, frame, prefill) == TrimFront(Append(buf, frame), prefill)

BufferFrame(buf, frame, prefill) == TrimFront(Append(buf, frame), prefill + 1)

\* Off by one: the onset is confirmed one frame early.
MutOnsetReached(counter, onset) == counter + 1 >= onset

\* `self.onset_counter >= self.onset_frames`
OnsetReached(counter, onset) == counter >= onset

\* Off by one: the hangover tail ends one frame early.
MutHangoverLeft(counter) == counter > 1

\* `self.hangover_counter > 0`
HangoverLeft(counter) == counter > 0

\* The pre-roll is forgotten: only the current frame is emitted.
MutOnsetPayload(buf) == <<buf[Len(buf)]>>

\* The payload emitted on a confirmed onset: every buffered frame, in order.
OnsetPayload(buf) == buf

\* The match on (in_speech, is_voice) of SmoothedVad::push_frame, applied to
\* a smoother `s` whose frame_buffer already holds `frame`.
Transition(s, frame, is_voice) ==
    CASE ~s.in_speech /\ is_voice ->
           IF OnsetReached(s.onset_counter + 1, s.onset_frames)
           THEN [sv |-> [s EXCEPT !.in_speech = TRUE,
                                  !.hangover_counter = s.hangover_frames,
                                  !.onset_counter = 0,
                                  !.temp_out = OnsetPayload(s.frame_buffer)],
                 out |-> Speech(OnsetPayload(s.frame_buffer))]
           ELSE [sv |-> [s EXCEPT !.onset_counter = s.onset_counter + 1],
                 out |-> Noise]
      [] s.in_speech /\ is_voice ->
           [sv |-> [s EXCEPT !.hangover_counter = s.hangover_frames],
            out |-> Speech(<<frame>>)]
      [] s.in_speech /\ ~is_voice ->
           IF HangoverLeft(s.hangover_counter)
           THEN [sv |-> [s EXCEPT !.hangover_counter = s.hangover_counter - 1],
                 out |-> Speech(<<frame>>)]
           ELSE [sv |-> [s EXCEPT !.in_speech = FALSE], out |-> Noise]
      [] ~s.in_speech /\ ~is_voice ->
           [sv |-> [s EXCEPT !.onset_counter = 0], out |-> Noise]

\* VoiceActivityDetector::push_frame, dispatched on the implementation.
\* For SmoothedVad: buffer the frame, ask the wrapped detector (is_voice,
\* the `?` returning its error), then apply the transition table.
RECURSIVE push_frame(_, _)
push_frame(d, frame) ==
    IF d.kind = "silero" THEN [sv |-> d, out |-> SileroPush(frame)]
    ELSE
      LET inner == push_frame(d.inner_vad, frame)
          s == [d EXCEPT !.frame_buffer =
                            BufferFrame(d.frame_buffer, frame, d.prefill_frames),
                         !.inner_vad = inner.sv]
      IN IF inner.out.tag = "Err" THEN [sv |-> s, out |-> Err]
         ELSE Transition(s, frame, is_speech(inner.out))

\* SmoothedVad::reset
reset(d) ==
    [d EXCEPT !.frame_buffer = <<>>,
              !.hangover_counter = 0,
              !.onset_counter = 0,
              !.in_speech = FALSE,
              !.temp_out = <<>>]

\* The wrapped detector as freshly constructed.
RECURSIVE Fresh(_)
Fresh(d) ==
    IF d.kind = "silero" THEN SileroVad
    ELSE NewSmoothedVad(Fresh(d.inner_vad), d.prefill_frames,
                        d.hangover_frames, d.onset_frames)

\* The detectors a SmoothedVad may wrap (Box<dyn VoiceActivityDetector>):
\* the Silero classifier, or another smoother built with_defaults.
InnerDetectors == {SileroVad, with_defaults(SileroVad)}

Counters(s) == [in_speech |-> s.in_speech,
                onset_counter |-> s.onset_counter,
                hangover_counter |-> s.hangover_counter]

\* How many classified frames `hist` keeps.
HistLen(s) == Max(s.onset_frames, s.hangover_frames + 2)

Last(seq, n) == SubSeq(seq, Len(seq) - Min(n, Len(seq)) + 1, Len(seq))

\* A smoother right after construction.
VadConstructed(v) ==
    /\ vad = v
    /\ vad_out = NoResult
    /\ fresh = vad
    /\ fresh_out = NoResult
    /\ twin_on = FALSE
    /\ hist = <<>>
    /\ next_id = 1
    /\ n_pushed = 0
    /\ n_resets = 0
    /\ speech_samples = <<>>

\* SmoothedVad::new with any wrapped detector and parameters.
VadInit ==
    \E inner \in InnerDetectors, p \in 0..MaxPrefill, h \in 0..MaxHangover,
       o \in 1..MaxOnset :
       VadConstructed(NewSmoothedVad(inner, p, h, o))

\* The smoother filter_with_vad builds, before any frame.
VadDefault == VadConstructed(with_defaults(SileroVad))

\* One call vad.push_frame(frame); after a reset the same frame is also
\* pushed to the freshly constructed instance.
PushFrame ==
    /\ next_id <= MaxFrames
    /\ \E frame \in Frames(next_id) :
         LET r == push_frame(vad, frame)
             raw == push_frame(vad.inner_vad, frame).out
             f == push_frame(fresh, frame)
         IN /\ vad' = r.sv
            /\ vad_out' = r.out
            /\ fresh' = IF twin_on THEN f.sv ELSE fresh
            /\ fresh_out' = IF twin_on THEN f.out ELSE fresh_out
            /\ hist' = IF r.out.tag = "Err" THEN hist
                       ELSE Last(Append(hist,
                                   [raw  |-> is_speech(raw),
                                    out  |-> r.out,
                                    frame |-> frame,
                                    pre  |-> Counters(vad),
                                    post |-> Counters(r.sv),
                                    pushed |-> n_pushed + 1]),
                                 HistLen(vad))
    /\ next_id' = next_id + 1
    /\ n_pushed' = n_pushed + 1
    /\ UNCHANGED <<twin_on, n_resets, speech_samples>>
    /\ UNCHANGED <<workerVars, mgrVars, fnVars, lockVars, scVars>>

\* One call vad.reset(); a fresh instance with the same parameters is
\* constructed beside it for comparison.
Reset ==
    /\ n_resets < MaxResets
    /\ vad' = reset(vad)
    /\ fresh' = Fresh(vad)
    /\ twin_on' = TRUE
    /\ vad_out' = NoResult
    /\ fresh_out' = NoResult
    /\ hist' = <<>>
    /\ n_pushed' = 0
    /\ n_resets' = n_resets + 1
    /\ UNCHANGED <<next_id, speech_samples>>
    /\ UNCHANGED <<workerVars, mgrVars, fnVars, lockVars, scVars>>

(***************************************************************************)
(* Properties of SmoothedVad (checked under SpecVad).  `hist` holds the    *)
(* frames the wrapped detector classified (a push on which it fails        *)
(* returns an error, yields no VadFrame and is not recorded), newest last. *)
(***************************************************************************)
HistRaw(i) == hist[i].raw
HistTag(i) == hist[i].out.tag

\* The ids of a payload's frames.
Ids(frames) == [i \in 1..Len(frames) |-> frames[i].id]

StartsOutOfSpeech(k) ==
    /\ Len(hist) >= k
    /\ k >= 1
    /\ ~hist[Len(hist) - k + 1].pre.in_speech
    /\ hist[Len(hist) - k + 1].pre.onset_counter = 0

\* The last frames were onset_frames - 1 raw-speech frames and a raw-noise
\* frame, fed from the not-in-speech state.
BrokenOnset ==
    LET n == Len(hist)
        o == vad.onset_frames
    IN /\ StartsOutOfSpeech(o)
       /\ \A i \in (n - o + 1)..(n - 1) : HistRaw(i)
       /\ ~HistRaw(n)

\* C7: from the not-in-speech state, onset_frames - 1 consecutive raw-speech
\* frames followed by a raw-noise frame give Noise for every one of them and
\* leave the onset counter at 0.
C7_BrokenOnsetEmitsNoise ==
    BrokenOnset =>
        /\ \A i \in (Len(hist) - vad.onset_frames + 1)..Len(hist) :
              HistTag(i) = "Noise"
        /\ hist[Len(hist)].post.onset_counter = 0
        /\ ~hist[Len(hist)].post.in_speech

\* A broken onset with a real speech frame in it has been fed.
C7_Witness ==
    /\ vad.onset_frames = 2
    /\ BrokenOnset
    /\ hist[Len(hist) - 1].post.onset_counter = 1

\* The last frames were exactly onset_frames raw-speech frames fed from the
\* not-in-speech state.
ConfirmedOnset ==
    LET n == Len(hist)
        o == vad.onset_frames
    IN /\ StartsOutOfSpeech(o)
       /\ \A i \in (n - o + 1)..n : HistRaw(i)

\* C8: from the not-in-speech state, onset_frames consecutive raw-speech
\* frames give Noise on the first onset_frames - 1 and Speech on the last;
\* the payload is the most recent min(pushed, prefill_frames + 1) frames,
\* oldest first and ending with the current one, hence
\* (prefill_frames + 1) * VAD_FRAME_SAMPLES samples once prefill_frames + 1
\* frames have been pushed since construction or reset.
C8_OnsetEmitsPrefill ==
    ConfirmedOnset =>
        LET n == Len(hist)
            o == vad.onset_frames
            e == hist[n]
            k == Min(e.pushed, vad.prefill_frames + 1)
        IN /\ \A i \in (n - o + 1)..(n - 1) : HistTag(i) = "Noise"
           /\ e.out.tag = "Speech"
           /\ Ids(e.out.samples) = [i \in 1..k |-> e.frame.id - k + i]
           /\ e.out.samples[k] = e.frame
           /\ (e.pushed >= vad.prefill_frames + 1 =>
                 SampleCount(e.out.samples) =
                    (vad.prefill_frames + 1) * VAD_FRAME_SAMPLES)
           /\ e.post.in_speech

\* An onset of two frames was confirmed with a full buffer of three frames.
C8_Witness ==
    /\ ConfirmedOnset
    /\ vad.onset_frames = 2
    /\ vad.prefill_frames = 2
    /\ hist[Len(hist)].pushed >= 3
    /\ Len(hist[Len(hist)].out.samples) = 3

\* The last frames were a raw-speech frame that left the smoother in speech
\* followed by hangover_frames + 1 raw-noise frames.
HangoverRun ==
    LET n == Len(hist)
        h == vad.hangover_frames
    IN /\ n >= h + 2
       /\ HistRaw(n - h - 1)
       /\ hist[n - h - 1].post.in_speech
       /\ \A i \in (n - h)..n : ~HistRaw(i)

\* C9: after entering speech (last frame raw-speech), hangover_frames
\* raw-noise frames each give Speech over the current frame only, the next
\* raw-noise frame gives Noise, and in_speech is false afterwards.
C9_HangoverThenNoise ==
    HangoverRun =>
        LET n == Len(hist)
            h == vad.hangover_frames
        IN /\ \A i \in (n - h)..(n - 1) :
                 hist[i].out = Speech(<<hist[i].frame>>)
           /\ HistTag(n) = "Noise"
           /\ ~hist[n].post.in_speech

\* A hangover tail of two frames ran out.
C9_Witness ==
    /\ HangoverRun
    /\ vad.hangover_frames = 2
    /\ ~vad.in_speech

\* C10: after reset() the smoother gives, for every following input, the
\* same results as a freshly constructed instance with the same parameters,
\* also when the wrapped detector keeps temporal state of its own.
C10_ResetEqualsFresh ==
    twin_on => vad_out = fresh_out

\* One round of the loop of filter_with_vad over samples.chunks(480): the
\* chunk, padded to a whole frame, is pushed to the smoother built
\* with_defaults; a Speech payload is appended to speech_samples, Noise is
\* skipped, and an error ends the call.
FilterChunk ==
    /\ next_id <= MaxChunks
    /\ vad_out.tag # "Err"
    /\ \E frame \in Frames(next_id) :
         LET r == push_frame(vad, frame)
         IN /\ vad' = r.sv
            /\ vad_out' = r.out
            /\ speech_samples' = IF is_speech(r.out)
                                 THEN speech_samples \o Ids(r.out.samples)
                                 ELSE speech_samples
    /\ next_id' = next_id + 1
    /\ n_pushed' = n_pushed + 1
    /\ UNCHANGED <<fresh, fresh_out, twin_on, hist, n_resets>>
    /\ UNCHANGED <<workerVars, mgrVars, fnVars, lockVars, scVars>>

\* C37: the speech-only stream filter_with_vad builds contains every input
\* frame at most once and in input order, for every raw speech/noise
\* pattern, a new onset shortly after the end of a hangover tail included.
C37_SpeechStreamIsSubsequence ==
    \A i, j \in 1..Len(speech_samples) :
        i < j => speech_samples[i] < speech_samples[j]

\* A push_frame call returns in this step; the wrapped detector's verdict
\* on its frame is the newest entry of hist unless the detector failed.
PushFrameReturns == next_id' # next_id
RawVerdict == hist'[Len(hist')].raw
DetectorFailed == vad_out'.tag = "Err"

\* C32: in a push_frame call in_speech changes from false to true only
\* when the onset counter reaches onset_frames on a raw-speech frame (then
\* the hangover counter is hangover_frames and the onset counter 0), and
\* from true to false only when the raw verdict is no-speech and the
\* hangover counter is already 0; a raw-noise frame while not in speech
\* sets the onset counter to 0 and a raw-speech frame while in speech sets
\* the hangover counter to hangover_frames.  (reset(), the only other
\* writer of in_speech, clears it.)
C32_InSpeechTransitions ==
    [][(PushFrameReturns /\ ~DetectorFailed) =>
        /\ (~vad.in_speech /\ vad'.in_speech) =>
              /\ RawVerdict
              /\ vad.onset_counter + 1 = vad.onset_frames
              /\ vad'.hangover_counter = vad.hangover_frames
              /\ vad'.onset_counter = 0
        /\ (vad.in_speech /\ ~vad'.in_speech) =>
              /\ ~RawVerdict
              /\ vad.hangover_counter = 0
        /\ (~vad.in_speech /\ ~RawVerdict) => vad'.onset_counter = 0
        /\ (vad.in_speech /\ RawVerdict) =>
              vad'.hangover_counter = vad.hangover_frames]_vars
    /\ [][(PushFrameReturns /\ DetectorFailed) =>
             vad'.in_speech = vad.in_speech]_vars
    /\ [][~PushFrameReturns => (vad'.in_speech => vad.in_speech)]_vars

\* The smoother entered speech, kept it through a hangover tail of two
\* frames and left it on the next raw-noise frame.
C32_Witness ==
    /\ Len(hist) >= 4
    /\ vad.hangover_frames = 2
    /\ \E i \in 1..(Len(hist) - 1) :
          ~hist[i].pre.in_speech /\ hist[i].post.in_speech
    /\ hist[Len(hist)].pre.in_speech
    /\ hist[Len(hist)].pre.hangover_counter = 0
    /\ ~hist[Len(hist)].post.in_speech

\* C33: after every push_frame call the history buffer holds the most
\* recent min(n, prefill_frames + 1) pushed frames in arrival order, n being
\* the frames pushed since construction or reset: never more than
\* prefill_frames + 1, the oldest evicted first.
C33_HistoryHoldsMostRecentFrames ==
    LET k == Min(n_pushed, vad.prefill_frames + 1)
    IN /\ Len(vad.frame_buffer) = k
       /\ \A i \in 1..k : vad.frame_buffer[i].id = next_id - k + i - 1

\* Four frames were pushed into a buffer of three: the first was evicted.
C33_Witness ==
    /\ vad.prefill_frames = 2
    /\ n_pushed = 4
    /\ Ids(vad.frame_buffer) = <<next_id - 3, next_id - 2, next_id - 1>>

\* C38: when push_frame returns an error because the wrapped detector
\* fails, the smoother's history buffer, onset counter, hangover counter
\* and in_speech are as before the call.
C38_ErrorLeavesSmootherUnchanged ==
    [][(PushFrameReturns /\ DetectorFailed) =>
          /\ vad'.frame_buffer = vad.frame_buffer
          /\ Counters(vad') = Counters(vad)]_vars

(***************************************************************************)
(* audio.rs: AudioRecorder, the worker thread it spawns and the stream     *)
(* callback.  One thread owns the recorder (&mut self / the slot's lock)   *)
(* and calls open, start, stop and close; stop blocks on the reply channel *)
(* and close blocks on join.                                               *)
(***************************************************************************)
Ok(v) == [ok |-> TRUE, val |-> v]
Fail(e) == [ok |-> FALSE, val |-> e]
Returned(op, res) == [op |-> op, res |-> res]

\* The worker thread exists and has not returned.
WorkerAlive == w_pc \in {"starting", "recv", "cmds"}

\* mpsc::Sender::send fails once the receiver is dropped, which happens when
\* the worker thread returns.
MutCmdSendOk == TRUE
CmdSendOk == WorkerAlive

\* open() returns at once when a worker handle is held.
MutAlreadyOpen == FALSE
AlreadyOpen == worker_handle

\* handle.join() returns when the thread has returned.
MutJoinReturns == TRUE
JoinReturns == w_pc = "exited"

\* RecorderCommand::Start: buffer.clear()
MutBufferOnStart(buf) == buf
BufferOnStart(buf) == <<>>

\* AudioRecorder::new, and the worker of a recorder that was never opened.
RecorderInit ==
    /\ cmd_tx = FALSE
    /\ worker_handle = FALSE
    /\ device = FALSE
    /\ w_pc = "none"
    /\ sample_q = <<>>
    /\ cmd_q = <<>>
    /\ is_recording = FALSE
    /\ buffer = <<>>
    /\ ctl_pc = "idle"
    /\ reply = [st |-> "none", buf |-> <<>>]
    /\ call_ret = Returned("new", Ok(<<>>))
    /\ since_start = <<>>
    /\ due = [blocks |-> <<>>, waiting |-> FALSE]
    /\ n_blocks = 0
    /\ n_ops = 0

CanCall == ctl_pc = "idle" /\ n_ops < MaxOps

\* AudioRecorder::open: a no-op when a worker handle is held; fails when no
\* input device or configuration is found; otherwise creates the channels
\* and spawns the worker.
Open ==
    /\ CanCall
    /\ n_ops' = n_ops + 1
    /\ \/ /\ AlreadyOpen
          /\ call_ret' = Returned("open", Ok(<<>>))
          /\ UNCHANGED <<cmd_tx, worker_handle, device, w_pc, sample_q, cmd_q,
                         is_recording, buffer>>
       \/ /\ ~AlreadyOpen
          /\ call_ret' = Returned("open", Fail("NoDevice"))
          /\ UNCHANGED <<cmd_tx, worker_handle, device, w_pc, sample_q, cmd_q,
                         is_recording, buffer>>
       \/ /\ ~AlreadyOpen
          /\ call_ret' = Returned("open", Ok(<<>>))
          /\ device' = TRUE
          /\ cmd_tx' = TRUE
          /\ worker_handle' = TRUE
          /\ w_pc' = "starting"
          /\ sample_q' = <<>>
          /\ cmd_q' = <<>>
          /\ is_recording' = FALSE
          /\ buffer' = <<>>
    /\ UNCHANGED <<ctl_pc, reply, since_start, due, n_blocks>>
    /\ UNCHANGED <<vadVars, mgrVars, fnVars, lockVars, scVars>>

\* AudioRecorder::start
Start ==
    /\ CanCall
    /\ n_ops' = n_ops + 1
    /\ IF ~cmd_tx THEN
          /\ call_ret' = Returned("start", Fail("NotOpen"))
          /\ UNCHANGED cmd_q
       ELSE IF ~CmdSendOk THEN
          /\ call_ret' = Returned("start", Fail("SendError"))
          /\ UNCHANGED cmd_q
       ELSE
          /\ call_ret' = Returned("start", Ok(<<>>))
          /\ cmd_q' = Append(cmd_q, "Start")
    /\ UNCHANGED <<cmd_tx, worker_handle, device, w_pc, sample_q, is_recording,
                   buffer, ctl_pc, reply, since_start, due, n_blocks>>
    /\ UNCHANGED <<vadVars, mgrVars, fnVars, lockVars, scVars>>

\* AudioRecorder::stop up to resp_rx.recv(): send Stop(resp_tx), then block.
StopSend ==
    /\ CanCall
    /\ n_ops' = n_ops + 1
    /\ IF ~cmd_tx THEN
          /\ call_ret' = Returned("stop", Fail("NotOpen"))
          /\ UNCHANGED <<cmd_q, ctl_pc, reply, due>>
       ELSE IF ~CmdSendOk THEN
          /\ call_ret' = Returned("stop", Fail("SendError"))
          /\ UNCHANGED <<cmd_q, ctl_pc, reply, due>>
       ELSE
          /\ cmd_q' = Append(cmd_q, "Stop")
          /\ ctl_pc' = "stop_wait"
          /\ reply' = [st |-> "pending", buf |-> <<>>]
          /\ due' = [blocks |-> since_start, waiting |-> w_pc = "recv"]
          /\ UNCHANGED call_ret
    /\ UNCHANGED <<cmd_tx, worker_handle, device, w_pc, sample_q, is_recording,
                   buffer, since_start, n_blocks>>
    /\ UNCHANGED <<vadVars, mgrVars, fnVars, lockVars, scVars>>

\* resp_rx.recv() returns: the buffer, or RecvError when the worker dropped
\* the reply sender without answering.
StopReturn ==
    /\ ctl_pc = "stop_wait"
    /\ reply.st \in {"sent", "dropped"}
    /\ call_ret' = Returned("stop", IF reply.st = "sent" THEN Ok(reply.buf)
                                    ELSE Fail("RecvError"))
    /\ ctl_pc' = "idle"
    /\ reply' = [st |-> "none", buf |-> <<>>]
    /\ UNCHANGED <<cmd_tx, worker_handle, device, w_pc, sample_q, cmd_q, is_recording,
                   buffer, since_start, due, n_blocks, n_ops>>
    /\ UNCHANGED <<vadVars, mgrVars, fnVars, lockVars, scVars>>

\* AudioRecorder::close up to handle.join(): send Shutdown (errors ignored),
\* take the handle and wait for the thread; without a handle, drop the
\* device and return.
CloseSend ==
    /\ CanCall
    /\ n_ops' = n_ops + 1
    /\ cmd_q' = IF cmd_tx /\ CmdSendOk THEN Append(cmd_q, "Shutdown") ELSE cmd_q
    /\ IF worker_handle
       THEN /\ ctl_pc' = "join_wait"
            /\ worker_handle' = FALSE
            /\ UNCHANGED <<call_ret, device>>
       ELSE /\ call_ret' = Returned("close", Ok(<<>>))
            /\ device' = FALSE
            /\ UNCHANGED <<ctl_pc, worker_handle>>
    /\ UNCHANGED <<cmd_tx, w_pc, sample_q, is_recording, buffer, reply,
                   since_start, due, n_blocks>>
    /\ UNCHANGED <<vadVars, mgrVars, fnVars, lockVars, scVars>>

\* handle.join() returns once the worker thread has returned; the device is
\* dropped.
CloseReturn ==
    /\ ctl_pc = "join_wait"
    /\ JoinReturns
    /\ ctl_pc' = "idle"
    /\ device' = FALSE
    /\ call_ret' = Returned("close", Ok(<<>>))
    /\ UNCHANGED <<cmd_tx, worker_handle, w_pc, sample_q, cmd_q, is_recording,
                   buffer, reply, since_start, due, n_blocks, n_ops>>
    /\ UNCHANGED <<vadVars, mgrVars, fnVars, lockVars, scVars>>

MutDropReply(r, q) == r

\* What the thread's return does to the channels: both receivers are
\* dropped, and with the command queue every reply sender still in it.
DropReply(r, q) ==
    IF r.st = "pending" /\ \E i \in 1..Len(q) : q[i] = "Stop"
    THEN [st |-> "dropped", buf |-> <<>>] ELSE r

\* Worker: build_stream and stream.play() succeed; the loop is entered.
WorkerStreamStarts ==
    /\ w_pc = "starting"
    /\ w_pc' = "recv"
    /\ UNCHANGED <<cmd_tx, worker_handle, device, sample_q, cmd_q, is_recording,
                   buffer, ctl_pc, reply, call_ret, since_start, due,
                   n_blocks, n_ops>>
    /\ UNCHANGED <<vadVars, mgrVars, fnVars, lockVars, scVars>>

\* Worker: unsupported format, build_stream or stream.play() fails: the
\* error is logged and the thread returns.
WorkerStreamFails ==
    /\ w_pc = "starting"
    /\ w_pc' = "exited"
    /\ reply' = DropReply(reply, cmd_q)
    /\ cmd_q' = <<>>
    /\ UNCHANGED <<cmd_tx, worker_handle, device, sample_q, is_recording, buffer,
                   ctl_pc, call_ret, since_start, due, n_blocks, n_ops>>
    /\ UNCHANGED <<vadVars, mgrVars, fnVars, lockVars, scVars>>

\* The stream callback: one converted block is sent on the sample channel.
AudioCallback ==
    /\ w_pc \in {"recv", "cmds"}
    /\ n_blocks < MaxBlocks
    /\ n_blocks' = n_blocks + 1
    /\ sample_q' = Append(sample_q, n_blocks + 1)
    /\ since_start' = IF is_recording THEN Append(since_start, n_blocks + 1)
                      ELSE since_start
    /\ UNCHANGED <<cmd_tx, worker_handle, device, w_pc, cmd_q, is_recording, buffer,
                   ctl_pc, reply, call_ret, due, n_ops>>
    /\ UNCHANGED <<vadVars, mgrVars, fnVars, lockVars, scVars>>

\* The blocks one sample_rx.recv_timeout call takes off the channel.
Received(q) == <<Head(q)>>

\* Worker: sample_rx.recv_timeout(10ms) returns a block, which is appended
\* to the buffer while recording.
WorkerRecv ==
    /\ w_pc = "recv"
    /\ sample_q # <<>>
    /\ buffer' = IF is_recording THEN buffer \o Received(sample_q) ELSE buffer
    /\ sample_q' = SubSeq(sample_q, Len(Received(sample_q)) + 1, Len(sample_q))
    /\ w_pc' = "cmds"
    /\ UNCHANGED <<cmd_tx, worker_handle, device, cmd_q, is_recording, ctl_pc, reply,
                   call_ret, since_start, due, n_blocks, n_ops>>
    /\ UNCHANGED <<vadVars, mgrVars, fnVars, lockVars, scVars>>

\* Worker: recv_timeout times out with nothing on the channel.
WorkerTimeout ==
    /\ w_pc = "recv"
    /\ sample_q = <<>>
    /\ w_pc' = "cmds"
    /\ UNCHANGED <<cmd_tx, worker_handle, device, sample_q, cmd_q, is_recording,
                   buffer, ctl_pc, reply, call_ret, since_start, due,
                   n_blocks, n_ops>>
    /\ UNCHANGED <<vadVars, mgrVars, fnVars, lockVars, scVars>>

\* Worker: one round of `while let Ok(cmd) = cmd_rx.try_recv()`.
WorkerCmd ==
    /\ w_pc = "cmds"
    /\ IF cmd_q = <<>> THEN
          /\ w_pc' = "recv"
          /\ UNCHANGED <<cmd_q, is_recording, buffer, reply, since_start>>
       ELSE IF Head(cmd_q) = "Start" THEN
          /\ buffer' = BufferOnStart(buffer)
          /\ is_recording' = TRUE
          /\ since_start' = <<>>
          /\ cmd_q' = Tail(cmd_q)
          /\ UNCHANGED <<w_pc, reply>>
       ELSE IF Head(cmd_q) = "Stop" THEN
          /\ is_recording' = FALSE
          /\ reply' = [st |-> "sent", buf |-> buffer]
          /\ buffer' = <<>>
          /\ since_start' = <<>>
          /\ cmd_q' = Tail(cmd_q)
          /\ UNCHANGED w_pc
       ELSE
          /\ w_pc' = "exited"
          /\ reply' = DropReply(reply, Tail(cmd_q))
          /\ cmd_q' = <<>>
          /\ UNCHANGED <<is_recording, buffer, since_start>>
    /\ UNCHANGED <<cmd_tx, worker_handle, device, sample_q, ctl_pc, call_ret, due,
                   n_blocks, n_ops>>
    /\ UNCHANGED <<vadVars, mgrVars, fnVars, lockVars, scVars>>

InSeq(x, q) == \E i \in 1..Len(q) : q[i] = x

\* C5: every block put on the sample channel after the preceding Start was
\* applied and before a Stop was sent is in the buffer that Stop returns,
\* however many blocks are queued when the worker wakes up.  Stated for the
\* case the claim describes: the worker is waiting in recv_timeout when the
\* Stop is sent, so that it wakes up to find the blocks and the command.
C5_StopReturnsEveryBlockSent ==
    (call_ret.op = "stop" /\ call_ret.res.ok /\ due.waiting) =>
        \A i \in 1..Len(due.blocks) : InSeq(due.blocks[i], call_ret.res.val)

\* A call of open, of stop (up to its send) or of close (up to its join)
\* is made in this step.
OpenStep == n_ops' # n_ops /\ ctl_pc' = "idle" /\ call_ret'.op = "open"
StopStep ==
    /\ n_ops' # n_ops
    /\ \/ ctl_pc' = "stop_wait"
       \/ ctl_pc' = "idle" /\ call_ret'.op = "stop"
CloseStep ==
    /\ n_ops' # n_ops
    /\ \/ ctl_pc' = "join_wait"
       \/ ctl_pc' = "idle" /\ call_ret'.op = "close"

\* What open() leaves alone when it does not spawn.
engineVars == <<cmd_tx, worker_handle, device, w_pc, sample_q, cmd_q,
                is_recording, buffer>>

\* C22: at most one worker thread exists for an engine at any time: while
\* no handle is held and no call is in progress no worker thread is alive,
\* open() on an engine that holds a handle returns success and leaves the
\* handle, the channels and the worker as they are, and open() spawns only
\* when no worker is alive, which after a first open is after close() has
\* joined the previous one.
C22_AtMostOneWorker ==
    /\ []((ctl_pc = "idle" /\ ~worker_handle) => ~WorkerAlive)
    /\ [][OpenStep =>
            IF worker_handle
            THEN call_ret'.res.ok /\ UNCHANGED engineVars
            ELSE ~WorkerAlive]_vars

\* open() returned success on an engine whose worker was recording: a worker
\* spawned by that open() would not be recording.
C22_Witness ==
    /\ call_ret = Returned("open", Ok(<<>>))
    /\ worker_handle
    /\ w_pc = "recv"
    /\ is_recording

\* C23: stop() on an engine that was never opened returns the not-open
\* error and sends nothing; stop() on an opened engine whose worker thread
\* has returned gets the send error at once: nothing is queued, no buffer is
\* returned and the caller does not wait for a reply.
C23_StopWithoutWorkerFails ==
    [][StopStep =>
        /\ ~cmd_tx =>
              /\ call_ret' = Returned("stop", Fail("NotOpen"))
              /\ ctl_pc' = "idle"
              /\ UNCHANGED <<cmd_q, reply>>
        /\ (cmd_tx /\ ~WorkerAlive) =>
              /\ call_ret' = Returned("stop", Fail("SendError"))
              /\ ctl_pc' = "idle"
              /\ UNCHANGED <<cmd_q, reply>>]_vars

\* stop() failed on an engine that holds the handle of a worker that
\* returned (its stream could not be started).
C23_Witness ==
    /\ call_ret = Returned("stop", Fail("SendError"))
    /\ cmd_tx
    /\ worker_handle
    /\ w_pc = "exited"
    /\ ctl_pc = "idle"

\* C24: close() returns, and when it has returned the worker thread has
\* returned, no handle is held and the device is released; close() on an
\* engine without a handle (closed before, or never opened) succeeds at once
\* and changes nothing; an open() that succeeds after a close() spawns a
\* worker with new, empty channels.
C24_CloseTerminatesAndReleases ==
    /\ (ctl_pc = "join_wait") ~> (ctl_pc = "idle")
    /\ []((ctl_pc = "idle" /\ call_ret.op = "close") =>
             /\ call_ret.res.ok
             /\ ~WorkerAlive
             /\ ~worker_handle
             /\ ~device)
    /\ [][(CloseStep /\ ~worker_handle) =>
             /\ call_ret' = Returned("close", Ok(<<>>))
             /\ ctl_pc' = "idle"
             /\ UNCHANGED engineVars]_vars
    /\ [][(OpenStep /\ call_ret.op = "close" /\ call_ret'.res.ok) =>
             /\ w_pc' = "starting"
             /\ worker_handle' /\ cmd_tx' /\ device'
             /\ sample_q' = <<>> /\ cmd_q' = <<>>
             /\ ~is_recording' /\ buffer' = <<>>]_vars

\* close() returned on an engine that had been opened: the worker has
\* returned and the device is released.
C24_Witness ==
    /\ call_ret = Returned("close", Ok(<<>>))
    /\ ctl_pc = "idle"
    /\ cmd_tx
    /\ w_pc = "exited"
    /\ ~worker_handle
    /\ ~device

\* (C36) Every AudioRecorder::stop() that waits for the worker eventually
\* returns, with the buffer or with an error, under fair scheduling of the
\* worker: also when the worker returns with the Stop still in the command
\* channel, sent but never applied.
C36_StopEventuallyReturns ==
    (ctl_pc = "stop_wait") ~> (ctl_pc = "idle" /\ call_ret.op = "stop")

\* stop() returned RecvError: the worker returned without applying the Stop.
C36_Witness ==
    /\ call_ret = Returned("stop", Fail("RecvError"))
    /\ ctl_pc = "idle"
    /\ w_pc = "exited"

\* C25: when the input stream cannot be built or started, open() returns a
\* failure and not success: no open() has returned Ok for an engine whose
\* worker thread returned without a Shutdown.
C25_OpenReportsStreamFailure ==
    (call_ret = Returned("open", Ok(<<>>)) /\ worker_handle) =>
        w_pc # "exited"

\* The worker's steps that apply a command or take a block.
CmdApplied(c) ==
    /\ w_pc = "cmds"
    /\ cmd_q # <<>>
    /\ Head(cmd_q) = c
    /\ w_pc' = IF c = "Shutdown" THEN "exited" ELSE "cmds"
    /\ cmd_q' = IF c = "Shutdown" THEN <<>> ELSE Tail(cmd_q)
BlockReceived ==
    /\ w_pc = "recv"
    /\ w_pc' = "cmds"
    /\ sample_q # <<>>

\* C26: the buffer a Stop returns holds exactly the blocks received while
\* recording since the last applied Start, in arrival order: applying Start
\* empties the buffer, a block received while recording is appended and one
\* received while not recording is dropped, applying Stop replies with the
\* buffer and leaves it empty, nothing else touches the buffer of a running
\* worker, the caller gets the reply as Ok, and the buffer is empty whenever
\* the worker is not recording, so a Stop without a Start returns an empty
\* buffer.
C26_StopReturnsBlocksSinceStart ==
    /\ [](~is_recording => buffer = <<>>)
    /\ [](\A i, j \in 1..Len(buffer) : i < j => buffer[i] < buffer[j])
    /\ [][/\ CmdApplied("Start") => (buffer' = <<>> /\ is_recording')
          /\ CmdApplied("Stop") =>
                /\ reply' = [st |-> "sent", buf |-> buffer]
                /\ buffer' = <<>>
                /\ ~is_recording'
          /\ BlockReceived =>
                /\ buffer' = IF is_recording
                             THEN Append(buffer, Head(sample_q))
                             ELSE buffer
                /\ UNCHANGED is_recording
          /\ (~CmdApplied("Start") /\ ~CmdApplied("Stop") /\ ~BlockReceived
                /\ ~(OpenStep /\ ~worker_handle)) =>
                UNCHANGED <<buffer, is_recording>>
          /\ (ctl_pc = "stop_wait" /\ ctl_pc' = "idle" /\ reply.st = "sent")
                => call_ret' = Returned("stop", Ok(reply.buf))]_vars

\* A Stop returned the second and third block: the first one was received
\* before the Start was applied.
C26_Witness ==
    /\ call_ret = Returned("stop", Ok(<<2, 3>>))
    /\ buffer = <<>>
    /\ ~is_recording

(***************************************************************************)
(* recording_manager.rs: resample_to_16k.  The f64 arithmetic is modelled  *)
(* by exact rationals: with ratio = 16000 / from_rate, i / ratio is        *)
(* i * from_rate / 16000, so its floor and fraction are a quotient and a   *)
(* remainder, and an output sample is kept as its numerator over           *)
(* TARGET_RATE.                                                            *)
(***************************************************************************)
TARGET_RATE == 16000
MaxSamples == 5
SupportedRates == {16000, 44100, 48000, 22050, 8000}
SampleValues == {-1, 0, 1}

\* (samples.len() as f64 * ratio) as usize
NewLen(len, from_rate) == (len * TARGET_RATE) \div from_rate

\* (idx_floor + 1).min(samples.len() - 1)
MutIdxCeil(idx_floor, len) == idx_floor + 1
IdxCeil(idx_floor, len) == Min(idx_floor + 1, len - 1)

\* samples[idx]: an index outside the slice panics.
InSlice(samples, idx) == idx >= 0 /\ idx < Len(samples)
At(samples, idx) == IF InSlice(samples, idx) THEN samples[idx + 1] ELSE 0

resample_to_16k(samples, from_rate) ==
    LET new_len == NewLen(Len(samples), from_rate)
        idx_floor(i) == (i * from_rate) \div TARGET_RATE
        idx_ceil(i) == IdxCeil(idx_floor(i), Len(samples))
        frac(i) == (i * from_rate) % TARGET_RATE
        sample(i) == At(samples, idx_floor(i)) * (TARGET_RATE - frac(i))
                     + At(samples, idx_ceil(i)) * frac(i)
    IN [done |-> TRUE,
        panicked |-> \E i \in 0..(new_len - 1) :
                        \/ ~InSlice(samples, idx_floor(i))
                        \/ ~InSlice(samples, idx_ceil(i)),
        output |-> [k \in 1..new_len |-> sample(k - 1)]]

NotResampled == [done |-> FALSE, panicked |-> FALSE, output |-> <<>>]

ResampleIdle ==
    /\ rs_in = [samples |-> <<>>, from_rate |-> TARGET_RATE]
    /\ rs_out = NotResampled

ResampleInit ==
    /\ rs_in \in [samples : UNION {[1..n -> SampleValues] : n \in 0..MaxSamples},
                  from_rate : SupportedRates]
    /\ rs_out = NotResampled

\* One call of resample_to_16k on the arguments drawn.
ResampleTo16k ==
    /\ ~rs_out.done
    /\ rs_out' = resample_to_16k(rs_in.samples, rs_in.from_rate)
    /\ UNCHANGED <<rs_in, cb_in, cb_hw, cb_q, cfg_in, cfg_out, wav_in, wav_out>>
    /\ UNCHANGED <<vadVars, workerVars, mgrVars, lockVars, scVars>>

\* C27: for every supported source rate and every non-empty input,
\* resample_to_16k returns exactly floor(len * 16000 / rate) samples (the
\* largest n with n * rate <= len * 16000), indexes only inside the input,
\* and maps a constant signal to the same constant.
C27_ResampleLengthAndConstant ==
    (rs_out.done /\ rs_in.from_rate \in SupportedRates
                 /\ Len(rs_in.samples) > 0) =>
        LET len == Len(rs_in.samples)
            n == Len(rs_out.output)
        IN /\ n * rs_in.from_rate <= len * 16000
           /\ (n + 1) * rs_in.from_rate > len * 16000
           /\ ~rs_out.panicked
           /\ \A c \in SampleValues :
                 (\A i \in 1..len : rs_in.samples[i] = c) =>
                    \A k \in 1..n : rs_out.output[k] = c * TARGET_RATE

\* Three samples of the constant 1 at 8000 Hz became six samples of 1; the
\* last one is interpolated against the clamped ceil index.
C27_Witness ==
    /\ rs_out.done
    /\ rs_in = [samples |-> <<1, 1, 1>>, from_rate |-> 8000]
    /\ ~rs_out.panicked
    /\ rs_out.output = [k \in 1..6 |-> TARGET_RATE]

(***************************************************************************)
(* audio.rs: the input callback build_stream installs.  A sample converted *)
(* by to_sample::<f32>() and a mono sample are rationals num / den: the    *)
(* f32 sum and division are modelled exactly.                              *)
(***************************************************************************)
MaxChannels == 3
MaxHwSamples == 6
SampleFormats == {"F32", "I16"}
HwValues == {-1, 0, 1}

\* s.to_sample::<f32>(): an f32 is taken as it is, an i16 is divided by
\* 32768.
ToSample(format, s) ==
    [num |-> s, den |-> IF format = "I16" THEN 32768 ELSE 1]

\* data.chunks(channels): consecutive pieces of `channels` samples, the
\* last one shorter when the length is not a multiple.
RECURSIVE Chunks(_, _)
Chunks(data, channels) ==
    IF data = <<>> THEN <<>>
    ELSE LET n == Min(channels, Len(data))
         IN <<SubSeq(data, 1, n)>>
            \o Chunks(SubSeq(data, n + 1, Len(data)), channels)

\* frame.iter().map(|s| s.to_sample::<f32>()).sum::<f32>()
RECURSIVE FrameSum(_, _)
FrameSum(format, frame) ==
    IF frame = <<>> THEN 0
    ELSE ToSample(format, Head(frame)).num + FrameSum(format, Tail(frame))

\* sum / channels as f32
MutFrameMean(format, frame, channels) ==
    [num |-> FrameSum(format, frame), den |-> ToSample(format, 0).den]
FrameMean(format, frame, channels) ==
    [num |-> FrameSum(format, frame),
     den |-> ToSample(format, 0).den * channels]

\* mono_samples of one callback.
MonoSamples(format, data, channels) ==
    IF channels = 1
    THEN [i \in 1..Len(data) |-> ToSample(format, data[i])]
    ELSE LET frames == Chunks(data, channels)
         IN [i \in 1..Len(frames) |->
                FrameMean(format, frames[i], channels)]

RECURSIVE TotalLen(_)
TotalLen(blocks) ==
    IF blocks = <<>> THEN 0 ELSE Len(Head(blocks)) + TotalLen(Tail(blocks))

\* An interleaved hardware block: whole frames of `channels` samples.
HwBlocks(channels, room) ==
    UNION {[1..(f * channels) -> HwValues] : f \in 1..(room \div channels)}

CallbackIdle ==
    /\ cb_in = [format |-> "F32", channels |-> 1]
    /\ cb_hw = <<>>
    /\ cb_q = <<>>

CallbackInit ==
    /\ cb_in \in [format : SampleFormats, channels : 1..MaxChannels]
    /\ cb_hw = <<>>
    /\ cb_q = <<>>

\* The platform calls the callback with one block; the mono block is sent
\* on the sample channel.
BuildStreamCallback ==
    /\ \E data \in HwBlocks(cb_in.channels, MaxHwSamples - TotalLen(cb_hw)) :
          /\ cb_hw' = Append(cb_hw, data)
          /\ cb_q' = Append(cb_q, MonoSamples(cb_in.format, data,
                                              cb_in.channels))
    /\ UNCHANGED <<rs_in, rs_out, cb_in, cfg_in, cfg_out, wav_in, wav_out>>
    /\ UNCHANGED <<vadVars, workerVars, mgrVars, lockVars, scVars>>

\* Equality of two rationals.
RatEq(a, b) == a.num * b.den = b.num * a.den

\* The sum of the converted samples of frame j of an N-channel block, as a
\* rational.
ChannelSum(format, data, channels, j) ==
    LET s(c) == ToSample(format, data[(j - 1) * channels + c])
        RECURSIVE Upto(_)
        Upto(c) == IF c = 0 THEN 0 ELSE s(c).num + Upto(c - 1)
    IN [num |-> Upto(channels), den |-> s(1).den]

\* C28: for every interleaved N-channel hardware block the callback sends
\* one block, in callback order, with one mono sample per frame; the sample
\* times N equals the sum of the frame's N converted channel samples (the
\* arithmetic mean: the 3-channel frame [1, 0, -1] gives 0), and for one
\* channel the block is the converted samples themselves.
C28_MonoIsMeanOfChannels ==
    /\ Len(cb_q) = Len(cb_hw)
    /\ \A k \in 1..Len(cb_hw) :
          LET data == cb_hw[k]
              mono == cb_q[k]
              N == cb_in.channels
          IN /\ Len(mono) * N = Len(data)
             /\ \A j \in 1..Len(mono) :
                   LET sum == ChannelSum(cb_in.format, data, N, j)
                   IN /\ RatEq([num |-> mono[j].num * N, den |-> mono[j].den],
                               sum)
                      /\ N = 1 => mono[j] = ToSample(cb_in.format, data[j])
                      /\ (N = 3 /\ cb_in.format = "F32"
                            /\ SubSeq(data, 3 * j - 2, 3 * j) = <<1, 0, -1>>)
                           => mono[j].num = 0

\* Two callbacks of a 3-channel f32 stream: [1, 0, -1] gave 0 and then
\* [1, 1, 1] gave 1.
C28_Witness ==
    /\ cb_in = [format |-> "F32", channels |-> 3]
    /\ cb_hw = << <<1, 0, -1>>, <<1, 1, 1>> >>
    /\ Len(cb_q) = 2
    /\ cb_q[1][1].num = 0
    /\ RatEq(cb_q[2][1], [num |-> 1, den |-> 1])

(***************************************************************************)
(* audio.rs: get_perferred_config.  The device reports an ordered list of  *)
(* supported configuration ranges and a default configuration.             *)
(***************************************************************************)
MaxRanges == 2
DeviceRates == {8000, 16000, 22050, 48000, 96000}
DeviceFormats == {"F32", "I16", "I32", "U8"}
preferred_rates == <<16000, 44100, 48000, 220050, 8000>>

NoConfig == [min |-> 0, max |-> 0, format |-> "none"]
DefaultConfig == [rate |-> 96000, format |-> "U8"]

score(format) ==
    IF format = "F32" THEN 3 ELSE IF format = "I16" THEN 2 ELSE 1

\* config_range.min_sample_rate().0 <= rate
\*    && config_range.max_sample_rate().0 >= rate
Contains(range, rate) == range.min <= rate /\ range.max >= rate

Preferred(range) ==
    {i \in 1..Len(preferred_rates) : Contains(range, preferred_rates[i])}

\* The first loop: a range containing a preferred rate replaces best_config
\* when there is none yet or its format scores higher.
RECURSIVE BestConfig(_, _)
BestConfig(supported_configs, best_config) ==
    IF supported_configs = <<>> THEN best_config
    ELSE LET config_range == Head(supported_configs)
             should_use ==
                 \/ best_config = NoConfig
                 \/ score(config_range.format) > score(best_config.format)
         IN BestConfig(Tail(supported_configs),
                       IF Preferred(config_range) # {} /\ should_use
                       THEN config_range ELSE best_config)

get_perferred_config(supported_configs, default) ==
    LET best_config == BestConfig(supported_configs, NoConfig)
    IN IF best_config # NoConfig /\ Preferred(best_config) # {}
       THEN LET i == CHOOSE i \in Preferred(best_config) :
                        \A j \in Preferred(best_config) : i <= j
            IN [done |-> TRUE, from |-> "range",
                rate |-> preferred_rates[i], format |-> best_config.format]
       ELSE [done |-> TRUE, from |-> "default",
             rate |-> default.rate, format |-> default.format]

NotNegotiated ==
    [done |-> FALSE, from |-> "none", rate |-> 0, format |-> "none"]

ConfigRanges ==
    {r \in [min : DeviceRates, max : DeviceRates, format : DeviceFormats] :
        r.min <= r.max}

ConfigIdle ==
    /\ cfg_in = <<>>
    /\ cfg_out = NotNegotiated

ConfigInit ==
    /\ cfg_in \in UNION {[1..n -> ConfigRanges] : n \in 0..MaxRanges}
    /\ cfg_out = NotNegotiated

\* One call of get_perferred_config on the device drawn.
GetPerferredConfig ==
    /\ ~cfg_out.done
    /\ cfg_out' = get_perferred_config(cfg_in, DefaultConfig)
    /\ UNCHANGED <<rs_in, rs_out, cb_in, cb_hw, cb_q, cfg_in, wav_in, wav_out>>
    /\ UNCHANGED <<vadVars, workerVars, mgrVars, lockVars, scVars>>

\* The order of rates and of formats the negotiation is to follow.
RateOrder == <<16000, 44100, 48000, 22050, 8000>>
Fidelity(format) ==
    IF format = "F32" THEN 4
    ELSE IF format = "I16" THEN 3
    ELSE IF format = "U8" THEN 1 ELSE 2
RangesWith(rate) ==
    {k \in 1..Len(cfg_in) : Contains(cfg_in[k], rate)}

\* C29: negotiation returns the first rate of 16000, 44100, 48000, 22050,
\* 8000 that some supported range contains, in the highest-fidelity format
\* (f32, then i16, then any other, then u8) among the ranges containing
\* that rate, and the default configuration only when no supported range
\* contains one of these rates.
C29_FirstRateThenBestFormat ==
    cfg_out.done =>
        LET found == {i \in 1..Len(RateOrder) : RangesWith(RateOrder[i]) # {}}
        IN IF found = {} THEN cfg_out.from = "default"
           ELSE LET i == CHOOSE i \in found : \A j \in found : i <= j
                    rate == RateOrder[i]
                IN /\ cfg_out.from = "range"
                   /\ cfg_out.rate = rate
                   /\ \A k \in RangesWith(rate) :
                         Fidelity(cfg_out.format) >= Fidelity(cfg_in[k].format)

(***************************************************************************)
(* cloud_transcribe.rs: samples_to_wav.  A sample is an f32 given in       *)
(* thousandths; the container is what hound's WavWriter writes for the     *)
(* WavSpec of lines 75-80 into a Cursor over a Vec, where no write fails:  *)
(* the 44-byte PCM header, two little-endian bytes per write_sample, and   *)
(* the two length fields filled in by finalize.                            *)
(***************************************************************************)
MaxWavSamples == 3
WavSamples == {-2000, -1000, -500, 0, 1, 500, 1000}
WavRates == {16000, 48000}

\* sample.clamp(-1.0, 1.0)
Clamped(sample) == Max(-1000, Min(1000, sample))

\* (clamped * 32767.0) as i16: the cast truncates toward zero.
Scaled(sample) ==
    LET p == Clamped(sample) * 32767
    IN IF p >= 0 THEN p \div 1000 ELSE -((-p) \div 1000)

\* Little-endian bytes of an unsigned number.
RECURSIVE LeBytes(_, _)
LeBytes(v, n) ==
    IF n = 0 THEN <<>> ELSE <<v % 256>> \o LeBytes(v \div 256, n - 1)

\* writer.write_sample(scaled): an i16 in two's complement.
MutSampleBytes(scaled) == LeBytes((scaled + 65536) % 65536, 1)
SampleBytes(scaled) == LeBytes((scaled + 65536) % 65536, 2)

\* The bytes of a four-character chunk tag.
Tag(name) ==
    IF name = "RIFF" THEN <<82, 73, 70, 70>>
    ELSE IF name = "WAVE" THEN <<87, 65, 86, 69>>
    ELSE IF name = "fmt " THEN <<102, 109, 116, 32>>
    ELSE <<100, 97, 116, 97>>

\* WavWriter::new with spec and finalize: channels 1, bits_per_sample 16,
\* sample_format Int.
WavHeader(sample_rate, data_len) ==
    Tag("RIFF") \o LeBytes(36 + data_len, 4) \o Tag("WAVE")
    \o Tag("fmt ") \o LeBytes(16, 4) \o LeBytes(1, 2) \o LeBytes(1, 2)
    \o LeBytes(sample_rate, 4) \o LeBytes(sample_rate * 2, 4)
    \o LeBytes(2, 2) \o LeBytes(16, 2)
    \o Tag("data") \o LeBytes(data_len, 4)

RECURSIVE WavPayload(_)
WavPayload(samples) ==
    IF samples = <<>> THEN <<>>
    ELSE SampleBytes(Scaled(Head(samples))) \o WavPayload(Tail(samples))

samples_to_wav(samples, sample_rate) ==
    LET payload == WavPayload(samples)
    IN [done |-> TRUE, ok |-> TRUE,
        bytes |-> WavHeader(sample_rate, Len(payload)) \o payload]

NotEncoded == [done |-> FALSE, ok |-> FALSE, bytes |-> <<>>]

WavIdle ==
    /\ wav_in = [samples |-> <<>>, sample_rate |-> 16000]
    /\ wav_out = NotEncoded

WavInit ==
    /\ wav_in \in [samples : UNION {[1..n -> WavSamples] :
                                       n \in 0..MaxWavSamples},
                   sample_rate : WavRates]
    /\ wav_out = NotEncoded

\* One call of samples_to_wav on the arguments drawn.
SamplesToWav ==
    /\ ~wav_out.done
    /\ wav_out' = samples_to_wav(wav_in.samples, wav_in.sample_rate)
    /\ UNCHANGED <<wav_in, rs_in, rs_out, cb_in, cb_hw, cb_q, cfg_in, cfg_out>>
    /\ UNCHANGED <<vadVars, workerVars, mgrVars, lockVars, scVars>>

\* The unsigned little-endian number in bytes a..b of the container.
RECURSIVE LeValue(_)
LeValue(bytes) ==
    IF bytes = <<>> THEN 0 ELSE Head(bytes) + 256 * LeValue(Tail(bytes))
Field(a, b) == LeValue(SubSeq(wav_out.bytes, a, b))

\* C31: for every sample sequence, the empty one included, samples_to_wav
\* succeeds and returns a RIFF/WAVE container for mono 16-bit PCM: a header
\* of 44 bytes whose length fields match, followed by exactly two bytes per
\* input sample and nothing else (no payload for empty input).
C31_WavIsValidMonoPcm16 ==
    wav_out.done =>
        LET n == Len(wav_in.samples)
            b == wav_out.bytes
        IN /\ wav_out.ok
           /\ Len(b) = 44 + 2 * n
           /\ SubSeq(b, 1, 4) = <<82, 73, 70, 70>>
           /\ SubSeq(b, 9, 12) = <<87, 65, 86, 69>>
           /\ Field(5, 8) = Len(b) - 8
           /\ Field(21, 22) = 1
           /\ Field(23, 24) = 1
           /\ Field(25, 28) = wav_in.sample_rate
           /\ Field(33, 34) = 2
           /\ Field(35, 36) = 16
           /\ Field(41, 44) = 2 * n
           /\ \A i \in 1..(44 + 2 * n) : b[i] \in 0..255

\* The empty sequence was encoded: a header and no payload.
C31_Witness ==
    /\ wav_out.done
    /\ wav_out.ok
    /\ wav_in.samples = <<>>
    /\ Len(wav_out.bytes) = 44

\* No pure function is being applied.

(***************************************************************************)
(* recording_manager.rs: RecordingManager.  start_recording, cancel and    *)
(* the settings calls run while their caller holds the locks they take, so *)
(* each is one step.  stop_and_transcribe is an async fn that releases the *)
(* state lock after its first block and takes it again only to write Idle: *)
(* it is split where other calls can run in between.  The capture engine   *)
(* in the slot is seen through what AudioRecorder's calls return (audio.rs *)
(* is modelled step by step under SpecWorker).                             *)
(***************************************************************************)
ManagerStates == {"Idle", "Recording", "Transcribing"}
ModelIds == {"cloud", "parakeet-v3"}
Tasks == {"release_a", "release_b"}

\* ModelInfo.engine_type of the two registry entries.
EngineType(id) == IF id = "cloud" THEN "Cloud" ELSE "Parakeet"

\* Option<AudioRecorder>: None, or a recorder whose worker thread is
\* building its stream ("starting"), capturing ("running") or has returned
\* ("exited"); buf counts the blocks its loop has buffered.
NoRecorder == [id |-> 0, w |-> "none", buf |-> 0]
NewRecorder(id) == [id |-> id, w |-> "starting", buf |-> 0]

\* Audio of a cycle: the blocks captured (raw), the blocks still in it (n)
\* and what the VAD stage did to it.
NoAudio == [cycle |-> 0, n |-> 0, raw |-> 0, vad |-> "none"]
MOk(text) == [ok |-> TRUE, err |-> "", text |-> text]
MFail(e) == [ok |-> FALSE, err |-> e, text |-> NoAudio]

\* One stop_and_transcribe invocation: where it is, and its locals.
IdleTask ==
    [pc |-> "idle", began |-> "Idle", slot_same |-> TRUE, sent |-> <<>>,
     audio |-> NoAudio, backend |-> FALSE, res |-> MOk(NoAudio),
     cancelled |-> "no"]

\* The last call that returned: what it was, the state it found and left,
\* whether it left the slot as it found it, the engines it created, the
\* commands it sent to a capture engine, whether it called the backend.
\* fx adds the audio the call last held, whether the slot was empty when it
\* returned, the events it emitted and the worker threads it left running
\* outside the slot.
Fx(audio, slot_empty, events, workers_left) ==
    [audio |-> audio, slot_empty |-> slot_empty, events |-> events,
     workers_left |-> workers_left]

Ret(seq, op, res, began, after, slot_same, engines, sent, backend, fx) ==
    [seq |-> seq, op |-> op, res |-> res, began |-> began, after |-> after,
     slot_same |-> slot_same, engines |-> engines, sent |-> sent,
     backend |-> backend, audio |-> fx.audio, slot_empty |-> fx.slot_empty,
     events |-> fx.events, workers_left |-> fx.workers_left]

\* A call that leaves the slot alone, emits nothing and holds no audio.
NoFx == Fx(NoAudio, recorder = NoRecorder, <<>>, 0)

InFlight == {t \in Tasks : tasks[t].pc # "idle"}
MayCall == ret.seq + Cardinality(InFlight) < MaxCalls

MutLockedPcs == {"awaiting"}
\* The positions at which a stop_and_transcribe holds the state lock from
\* one step to the next: none.  The guard of lines 169-170 is dropped at the
\* end of the block (line 193) and those of lines 196, 259 and 281 before
\* the function returns; no guard lives across the await of line 270.
LockedPcs == {}

\* self.state.lock() returns at once.
StateLockFree == \A t \in Tasks : tasks[t].pc \notin LockedPcs

MutStopAndClose(rec) == IF rec = NoRecorder THEN <<>> ELSE <<"Stop">>
\* Commands cancel() sends to the recorder in the slot (stop, close), and
\* the one Drop sends to a recorder the slot lets go of (close).
StopAndClose(rec) == IF rec = NoRecorder THEN <<>> ELSE <<"Stop", "Shutdown">>
DropRecorder(rec) == IF rec = NoRecorder THEN <<>> ELSE <<"Shutdown">>

MutStartAllowed(st) == st # "Recording"
\* recording_manager.rs:143
StartAllowed(st) == st = "Idle"

MutStopAllowed(st) == st # "Transcribing"
\* recording_manager.rs:172
StopAllowed(st) == st = "Recording"

\* AudioRecorder::stop on the recorder in the slot: the send fails when the
\* worker has returned; a worker still building its stream either fails
\* (the receiver is dropped, recv on the reply fails) or reaches its loop
\* and replies with what it buffered.
StopOutcomes(rec) ==
    CASE rec.w = "exited" -> {"failed"}
      [] rec.w = "starting" -> {"failed", "replied"}
      [] OTHER -> {"replied"}

ManagerInit ==
    /\ state = "Idle"
    /\ recorder = NoRecorder
    /\ tasks = [t \in Tasks |-> IdleTask]
    /\ ret = Ret(0, "new", MOk(NoAudio), "Idle", "Idle", TRUE, 0, <<>>, FALSE,
                 Fx(NoAudio, TRUE, <<>>, 0))
    /\ n_engines = 0
    /\ selected_model = "cloud"
    /\ current_model_id = "none"
    /\ vad_enabled = TRUE
    /\ vad_model_path = FALSE

settingsVars == <<selected_model, current_model_id, vad_enabled,
                  vad_model_path>>

MutStartEvents(started) == <<"recording-started">>
\* recording_manager.rs:160, reached only past the three `?` of 153-155.
StartEvents(started) == IF started THEN <<"recording-started">> ELSE <<>>

StartRecording ==
    /\ MayCall
    /\ StateLockFree
    /\ IF ~StartAllowed(state)
       THEN /\ ret' = Ret(ret.seq + 1, "start_recording", MFail("NotIdle"),
                          state, state, TRUE, 0, <<>>, FALSE, NoFx)
            /\ UNCHANGED <<state, recorder, n_engines>>
       ELSE /\ n_engines < MaxCycles
            /\ \/ \* AudioRecorder::new or open fails (no input device)
                  /\ ret' = Ret(ret.seq + 1, "start_recording",
                                MFail("OpenFailed"), state, state, TRUE, 0,
                                <<>>, FALSE,
                                Fx(NoAudio, recorder = NoRecorder,
                                   StartEvents(FALSE), 0))
                  /\ UNCHANGED <<state, recorder, n_engines>>
               \/ \* the worker returned before start() could send
                  /\ n_engines' = n_engines + 1
                  /\ ret' = Ret(ret.seq + 1, "start_recording",
                                MFail("StartFailed"), state, state, TRUE, 1,
                                <<>>, FALSE,
                                Fx(NoAudio, recorder = NoRecorder,
                                   StartEvents(FALSE), 0))
                  /\ UNCHANGED <<state, recorder>>
               \/ /\ n_engines' = n_engines + 1
                  /\ recorder' = NewRecorder(n_engines + 1)
                  /\ state' = "Recording"
                  /\ ret' = Ret(ret.seq + 1, "start_recording", MOk(NoAudio),
                                state, "Recording", FALSE, 1,
                                <<"Start">> \o DropRecorder(recorder), FALSE,
                                Fx(NoAudio, FALSE, StartEvents(TRUE), 0))
    /\ UNCHANGED <<tasks, settingsVars>>
    /\ UNCHANGED <<vadVars, workerVars, fnVars, lockVars, scVars>>

\* The worker thread of the recorder in the slot: build_stream and play
\* succeed and run_recording_loop applies the queued Start.
EngineStreamStarts ==
    /\ recorder.w = "starting"
    /\ recorder' = [recorder EXCEPT !.w = "running"]
    /\ UNCHANGED <<state, tasks, ret, n_engines, settingsVars>>
    /\ UNCHANGED <<vadVars, workerVars, fnVars, lockVars, scVars>>

\* build_stream or play fails: the worker logs and returns (audio.rs:117-133).
EngineStreamFails ==
    /\ recorder.w = "starting"
    /\ recorder' = [recorder EXCEPT !.w = "exited"]
    /\ UNCHANGED <<state, tasks, ret, n_engines, settingsVars>>
    /\ UNCHANGED <<vadVars, workerVars, fnVars, lockVars, scVars>>

\* The loop buffers one more block.
EngineCapture ==
    /\ recorder.w = "running"
    /\ recorder.buf < MaxAudio
    /\ recorder' = [recorder EXCEPT !.buf = @ + 1]
    /\ UNCHANGED <<state, tasks, ret, n_engines, settingsVars>>
    /\ UNCHANGED <<vadVars, workerVars, fnVars, lockVars, scVars>>

\* stop_and_transcribe, lines 168-193: under the state and recorder locks.
StopBegin(t) ==
    /\ tasks[t].pc = "idle"
    /\ MayCall
    /\ StateLockFree
    /\ IF ~StopAllowed(state)
       THEN /\ ret' = Ret(ret.seq + 1, "stop_and_transcribe",
                          MFail("NotRecording"), state, state, TRUE, 0, <<>>,
                          FALSE, NoFx)
            /\ UNCHANGED <<state, recorder, tasks>>
       ELSE IF recorder = NoRecorder
       THEN /\ ret' = Ret(ret.seq + 1, "stop_and_transcribe",
                          MFail("RecorderNotInitialized"), state, state, TRUE,
                          0, <<>>, FALSE, NoFx)
            /\ UNCHANGED <<state, recorder, tasks>>
       ELSE \E o \in StopOutcomes(recorder) :
              IF o = "failed"
              THEN /\ recorder' = [recorder EXCEPT !.w = "exited"]
                   /\ ret' = Ret(ret.seq + 1, "stop_and_transcribe",
                                 MFail("StopFailed"), state, state, TRUE, 0,
                                 <<"Stop">>, FALSE, NoFx)
                   /\ UNCHANGED <<state, tasks>>
              ELSE /\ recorder' = NoRecorder
                   /\ state' = "Transcribing"
                   /\ tasks' = [tasks EXCEPT ![t] =
                          [IdleTask EXCEPT
                             !.pc = "stopped", !.began = state,
                             !.slot_same = FALSE,
                             !.sent = <<"Stop", "Shutdown">>,
                             !.audio = [cycle |-> recorder.id,
                                        n |-> recorder.buf,
                                        raw |-> recorder.buf,
                                        vad |-> "none"]]]
                   /\ UNCHANGED ret
    /\ UNCHANGED <<n_engines, settingsVars>>
    /\ UNCHANGED <<vadVars, workerVars, fnVars, lockVars, scVars>>

\* What a call of stop_and_transcribe that got past its first block
\* reports when it returns.
StopRet(t, res, after, audio) ==
    Ret(ret.seq + 1, "stop_and_transcribe", res, tasks[t].began, after,
        tasks[t].slot_same, 0, tasks[t].sent, tasks[t].backend,
        Fx(audio, recorder = NoRecorder, <<"recording-stopped">>, 0))

\* LocalTranscriber::transcribe (local_transcribe.rs:92-128).
LocalOutcomes(audio) ==
    IF current_model_id = "none"
    THEN {MFail("NoModelLoaded")}
    ELSE {MOk(audio), MFail("BackendError")}

\* What filter_with_vad can make of n blocks: an error, or the blocks it
\* kept (none when no frame was classified as speech).
\* kept: the blocks collected in speech_samples when it returned.
VadOutcomes(n) == [ok : BOOLEAN, kept : 0..n]

MutOnVadError(a, v) == [a EXCEPT !.n = v.kept, !.vad = "failed"]
\* Lines 245-248: Err(e) => samples_16k.
OnVadError(a, v) == [a EXCEPT !.vad = "failed"]

\* Lines 230-256: the audio the VAD stage hands on.
Filtered(a, enabled, has_path, v) ==
    CASE ~enabled -> [a EXCEPT !.vad = "disabled"]
      [] ~has_path -> [a EXCEPT !.vad = "no_model"]
      [] ~v.ok -> OnVadError(a, v)
      [] OTHER -> [a EXCEPT !.n = v.kept, !.vad = "applied"]

MutNoSpeechLeft(f) == FALSE
\* recording_manager.rs:258, samples_filtered.is_empty()
NoSpeechLeft(f) == f.n = 0

\* stop_and_transcribe, lines 195-277: the empty check, the model lookup,
\* the optional VAD pass, the no-speech check and the call of the backend.
\* The local backend is synchronous; the cloud request is awaited.
Process(t) ==
    /\ tasks[t].pc = "stopped"
    /\ LET a == tasks[t].audio
       IN IF a.n = 0
          THEN /\ state' = "Idle"
               /\ tasks' = [tasks EXCEPT ![t] = IdleTask]
               /\ ret' = StopRet(t, MFail("NoAudioRecorded"), "Idle", a)
          ELSE IF selected_model \notin ModelIds
          THEN /\ tasks' = [tasks EXCEPT ![t] = IdleTask]
               /\ ret' = StopRet(t, MFail("ModelNotFound"), state, a)
               /\ UNCHANGED state
          ELSE \E v \in VadOutcomes(a.n) :
                 LET f == Filtered(a, vad_enabled, vad_model_path, v)
                 IN IF NoSpeechLeft(f)
                    THEN /\ state' = "Idle"
                         /\ tasks' = [tasks EXCEPT ![t] = IdleTask]
                         /\ ret' = StopRet(t, MFail("NoSpeechDetected"),
                                            "Idle", f)
                    ELSE /\ UNCHANGED <<state, ret>>
                         /\ IF EngineType(selected_model) = "Cloud"
                            THEN tasks' = [tasks EXCEPT ![t] =
                                     [@ EXCEPT !.pc = "awaiting",
                                               !.audio = f,
                                               !.backend = TRUE]]
                            ELSE \E r \in LocalOutcomes(f) :
                                   tasks' = [tasks EXCEPT ![t] =
                                     [@ EXCEPT !.pc = "finishing",
                                               !.audio = f,
                                               !.backend = TRUE,
                                               !.res = r]]
    /\ UNCHANGED <<recorder, n_engines, settingsVars>>
    /\ UNCHANGED <<vadVars, workerVars, fnVars, lockVars, scVars>>

\* The awaited cloud request completes (cloud_transcribe.rs:66).
BackendReturns(t) ==
    /\ tasks[t].pc = "awaiting"
    /\ \E r \in {MOk(tasks[t].audio), MFail("BackendError")} :
         tasks' = [tasks EXCEPT ![t] = [@ EXCEPT !.pc = "finishing",
                                                 !.res = r]]
    /\ UNCHANGED <<state, recorder, ret, n_engines, settingsVars>>
    /\ UNCHANGED <<vadVars, workerVars, fnVars, lockVars, scVars>>

MutStateAfterBackend == "Transcribing"
\* recording_manager.rs:282
StateAfterBackend == "Idle"

\* stop_and_transcribe, lines 279-285: write Idle, return the result.
Finish(t) ==
    /\ tasks[t].pc = "finishing"
    /\ StateLockFree
    /\ state' = StateAfterBackend
    /\ ret' = StopRet(t, tasks[t].res, StateAfterBackend, tasks[t].audio)
    /\ tasks' = [tasks EXCEPT ![t] = IdleTask]
    /\ UNCHANGED <<recorder, n_engines, settingsVars>>
    /\ UNCHANGED <<vadVars, workerVars, fnVars, lockVars, scVars>>

\* The cycle a cancel() cancels: the one recording into the slot, or the
\* one whose stop_and_transcribe has put the state in Transcribing.
CancelledCycle ==
    IF recorder # NoRecorder THEN recorder.id
    ELSE IF state = "Transcribing"
    THEN CHOOSE c \in {tasks[t].audio.cycle : t \in InFlight} :
            \A t \in InFlight : tasks[t].audio.cycle <= c
    ELSE 0

\* cancel, lines 323-335.  It does not touch a stop_and_transcribe that is
\* past its locked block: the task keeps the audio it took.
Cancel ==
    /\ MayCall
    /\ StateLockFree
    /\ recorder' = NoRecorder
    /\ state' = "Idle"
    /\ ret' = Ret(ret.seq + 1, "cancel", MOk(NoAudio), state, "Idle",
                  recorder = NoRecorder, 0, StopAndClose(recorder), FALSE,
                  Fx(NoAudio, TRUE, <<>>, 0))
    /\ tasks' = [t \in Tasks |->
                   IF tasks[t].pc # "idle" /\ tasks[t].audio.cycle = CancelledCycle
                   THEN [tasks[t] EXCEPT !.cancelled =
                            IF tasks[t].backend THEN "after_dispatch"
                                                ELSE "before_dispatch"]
                   ELSE tasks[t]]
    /\ UNCHANGED <<n_engines, settingsVars>>
    /\ UNCHANGED <<vadVars, workerVars, fnVars, lockVars, scVars>>

\* A settings call returns.
SettingsRet(op, res) ==
    Ret(ret.seq + 1, op, res, state, state, TRUE, 0, <<>>, FALSE, NoFx)

\* self.local_transcriber.current_model().as_deref() == Some(model_id)
MutAlreadyLoaded(model_id) == FALSE
AlreadyLoaded(model_id) == current_model_id = model_id

\* set_selected_model, lines 86-137.  Whether the local model's files are
\* on disk and whether the engine loads them are the registry's and the
\* engine's answers.
SetSelectedModel(model_id) ==
    /\ MayCall
    /\ IF model_id \notin ModelIds
       THEN /\ ret' = SettingsRet("set_selected_model", MFail("ModelNotFound"))
            /\ UNCHANGED <<selected_model, current_model_id>>
       ELSE IF EngineType(model_id) = "Cloud"
       THEN /\ current_model_id' = "none"
            /\ selected_model' = model_id
            /\ ret' = SettingsRet("set_selected_model", MOk(NoAudio))
       ELSE \E is_downloaded \in BOOLEAN, loads \in BOOLEAN :
              IF ~is_downloaded
              THEN /\ ret' = SettingsRet("set_selected_model",
                                         MFail("NotDownloaded"))
                   /\ UNCHANGED <<selected_model, current_model_id>>
              ELSE IF AlreadyLoaded(model_id)
              THEN /\ selected_model' = model_id
                   /\ ret' = SettingsRet("set_selected_model", MOk(NoAudio))
                   /\ UNCHANGED current_model_id
              ELSE IF ~loads
              THEN \* load_model unloads first (local_transcribe.rs:42)
                   /\ current_model_id' = "none"
                   /\ ret' = SettingsRet("set_selected_model",
                                         MFail("LoadFailed"))
                   /\ UNCHANGED selected_model
              ELSE /\ current_model_id' = model_id
                   /\ selected_model' = model_id
                   /\ ret' = SettingsRet("set_selected_model", MOk(NoAudio))
    /\ UNCHANGED <<state, recorder, tasks, n_engines, vad_enabled,
                   vad_model_path>>
    /\ UNCHANGED <<vadVars, workerVars, fnVars, lockVars, scVars>>

\* unload_local_model, lines 337-339.
UnloadLocalModel ==
    /\ MayCall
    /\ current_model_id' = "none"
    /\ ret' = SettingsRet("unload_local_model", MOk(NoAudio))
    /\ UNCHANGED <<state, recorder, tasks, n_engines, selected_model,
                   vad_enabled, vad_model_path>>
    /\ UNCHANGED <<vadVars, workerVars, fnVars, lockVars, scVars>>

\* set_vad_enabled, lines 73-76.
SetVadEnabled(enabled) ==
    /\ MayCall
    /\ vad_enabled' = enabled
    /\ ret' = SettingsRet("set_vad_enabled", MOk(NoAudio))
    /\ UNCHANGED <<state, recorder, tasks, n_engines, selected_model,
                   current_model_id, vad_model_path>>
    /\ UNCHANGED <<vadVars, workerVars, fnVars, lockVars, scVars>>

\* ensure_vad_model, lines 79-83: the download succeeds or fails.
EnsureVadModel ==
    /\ MayCall
    /\ \E downloaded \in BOOLEAN :
         IF downloaded
         THEN /\ vad_model_path' = TRUE
              /\ ret' = SettingsRet("ensure_vad_model", MOk(NoAudio))
         ELSE /\ ret' = SettingsRet("ensure_vad_model",
                                    MFail("DownloadFailed"))
              /\ UNCHANGED vad_model_path
    /\ UNCHANGED <<state, recorder, tasks, n_engines, selected_model,
                   current_model_id, vad_enabled>>
    /\ UNCHANGED <<vadVars, workerVars, fnVars, lockVars, scVars>>

\* get_state, lines 57-60: the state it finds (ret.began) is its result.
GetState ==
    /\ MayCall
    /\ StateLockFree
    /\ ret' = SettingsRet("get_state", MOk(NoAudio))
    /\ UNCHANGED <<state, recorder, tasks, n_engines, settingsVars>>
    /\ UNCHANGED <<vadVars, workerVars, fnVars, lockVars, scVars>>

(***************************************************************************)
(* recording_manager.rs, lock by lock: the state mutex and the slot mutex  *)
(* as start_recording, stop_and_transcribe, cancel and get_state take and  *)
(* release them, and the capture worker the locked operations wait on.     *)
(***************************************************************************)
LockThreads == {"t1", "t2", "t3"}

Locks == {"state", "recorder"}

NoHolder == "none"

\* What one step of an operation does to the locks or to the worker.
Lock(l) == [op |-> "lock", l |-> l]

Unlock(l) == [op |-> "unlock", l |-> l]

\* AudioRecorder::stop or close: a command is sent to the worker ...
AskWorker == [op |-> "ask", l |-> "none"]

\* ... and the caller blocks until the worker replies or exits.
AwaitWorker == [op |-> "await", l |-> "none"]

\* Work done with neither lock held (resampling, VAD, the backend's await).
RunUnlocked == [op |-> "run", l |-> "none"]

\* get_state, line 59: the guard is a temporary of the statement.
GetStateProgs == {<<Lock("state"), Unlock("state")>>}

\* start_recording, lines 140-164: the state guard lives to the end of the
\* function (or to the drop of line 145); the slot guard of line 157 is a
\* temporary taken while the state guard is held.
StartRecordingProgs ==
    {<<Lock("state"), Unlock("state")>>,
     <<Lock("state"), Lock("recorder"), Unlock("recorder"), Unlock("state")>>}

\* stop_and_transcribe: the block of lines 168-189 takes the state guard and
\* then the slot guard and drops them in reverse order; stop() and close()
\* are called inside it; the Idle writes of lines 196, 259 and 281 take the
\* state guard alone.
StopAndTranscribeProgs ==
    {<<Lock("state"), Lock("recorder"), Unlock("recorder"), Unlock("state")>>,
     <<Lock("state"), Lock("recorder"), AskWorker, AwaitWorker,
       Unlock("recorder"), Unlock("state")>>,
     <<Lock("state"), Lock("recorder"), AskWorker, AwaitWorker, AskWorker,
       AwaitWorker, Unlock("recorder"), Unlock("state")>>,
     <<Lock("state"), Lock("recorder"), AskWorker, AwaitWorker, AskWorker,
       AwaitWorker, Unlock("recorder"), Unlock("state"), RunUnlocked,
       Lock("state"), Unlock("state")>>}

\* cancel, lines 324-325: the order in which it takes the two guards.
MutCancelLocks == <<"recorder", "state">>

CancelLocks == <<"state", "recorder">>

\* cancel, lines 323-335: both guards live to the end of the function.
CancelProgs ==
    {<<Lock(CancelLocks[1]), Lock(CancelLocks[2]), Unlock(CancelLocks[2]),
       Unlock(CancelLocks[1])>>,
     <<Lock(CancelLocks[1]), Lock(CancelLocks[2]), AskWorker, AwaitWorker,
       AskWorker, AwaitWorker, Unlock(CancelLocks[2]),
       Unlock(CancelLocks[1])>>}

Named(name, progs) == {[name |-> name, prog |-> p, pc |-> 1] : p \in progs}

LockOps ==
    Named("get_state", GetStateProgs)
        \cup Named("start_recording", StartRecordingProgs)
        \cup Named("stop_and_transcribe", StopAndTranscribeProgs)
        \cup Named("cancel", CancelProgs)

NoProg == [name |-> "none", prog |-> <<>>, pc |-> 0]

LockInit ==
    /\ lk_held = [l \in Locks |-> NoHolder]
    /\ lk_th = [t \in LockThreads |-> NoProg]
    /\ wk = "idle"

\* The instruction thread t is at.
NextInstr(t) == lk_th[t].prog[lk_th[t].pc]

Advanced(t) ==
    IF lk_th[t].pc = Len(lk_th[t].prog)
    THEN [lk_th EXCEPT ![t] = NoProg]
    ELSE [lk_th EXCEPT ![t].pc = @ + 1]

\* A thread calls one of the four operations.
LockCall(t) ==
    /\ lk_th[t].pc = 0
    /\ \E o \in LockOps : lk_th' = [lk_th EXCEPT ![t] = o]
    /\ UNCHANGED <<lk_held, wk>>
    /\ UNCHANGED <<vadVars, workerVars, mgrVars, fnVars, scVars>>

\* Mutex::lock: blocks while another thread (or this one) holds the mutex.
LockAcquire(t) ==
    /\ lk_th[t].pc > 0
    /\ NextInstr(t).op = "lock"
    /\ lk_held[NextInstr(t).l] = NoHolder
    /\ lk_held' = [lk_held EXCEPT ![NextInstr(t).l] = t]
    /\ lk_th' = Advanced(t)
    /\ UNCHANGED wk
    /\ UNCHANGED <<vadVars, workerVars, mgrVars, fnVars, scVars>>

\* The guard is dropped.
LockRelease(t) ==
    /\ lk_th[t].pc > 0
    /\ NextInstr(t).op = "unlock"
    /\ lk_held' = [lk_held EXCEPT ![NextInstr(t).l] = NoHolder]
    /\ lk_th' = Advanced(t)
    /\ UNCHANGED wk
    /\ UNCHANGED <<vadVars, workerVars, mgrVars, fnVars, scVars>>

\* audio.rs: stop() sends Cmd::Stop, close() sends Cmd::Shutdown.
LockAsk(t) ==
    /\ lk_th[t].pc > 0
    /\ NextInstr(t).op = "ask"
    /\ wk = "idle"
    /\ wk' = "asked"
    /\ lk_th' = Advanced(t)
    /\ UNCHANGED lk_held
    /\ UNCHANGED <<vadVars, workerVars, mgrVars, fnVars, scVars>>

\* audio.rs: stop() waits in recv(), close() in join().
LockAwait(t) ==
    /\ lk_th[t].pc > 0
    /\ NextInstr(t).op = "await"
    /\ wk = "replied"
    /\ wk' = "idle"
    /\ lk_th' = Advanced(t)
    /\ UNCHANGED lk_held
    /\ UNCHANGED <<vadVars, workerVars, mgrVars, fnVars, scVars>>

LockRun(t) ==
    /\ lk_th[t].pc > 0
    /\ NextInstr(t).op = "run"
    /\ lk_th' = Advanced(t)
    /\ UNCHANGED <<lk_held, wk>>
    /\ UNCHANGED <<vadVars, workerVars, mgrVars, fnVars, scVars>>

\* audio.rs, run_recording_loop: the worker applies the command and replies,
\* or returns; it takes neither mutex of the manager.
WorkerServes ==
    /\ wk = "asked"
    /\ wk' = "replied"
    /\ UNCHANGED <<lk_held, lk_th>>
    /\ UNCHANGED <<vadVars, workerVars, mgrVars, fnVars, scVars>>

LockStep(t) ==
    LockAcquire(t) \/ LockRelease(t) \/ LockAsk(t) \/ LockAwait(t) \/ LockRun(t)

Holds(t, l) == lk_held[l] = t

WaitsFor(t, l) ==
    /\ lk_th[t].pc > 0
    /\ NextInstr(t) = Lock(l)
    /\ lk_held[l] # NoHolder

\* (C35) No interleaving of start_recording, stop_and_transcribe, cancel and
\* get_state deadlocks: while an operation is in progress some thread or
\* the worker can take a step; whoever holds the slot lock holds the state
\* lock (state first, slot second); nobody waits for the state lock while
\* holding the slot lock; and the worker an operation waits on can always
\* serve the request, whatever the locks.
C35_NoDeadlock ==
    /\ (\E t \in LockThreads : lk_th[t].pc > 0)
          => ENABLED ((\E t \in LockThreads : LockStep(t)) \/ WorkerServes)
    /\ \A t \in LockThreads : Holds(t, "recorder") => Holds(t, "state")
    /\ \A t \in LockThreads : WaitsFor(t, "state") => ~Holds(t, "recorder")
    /\ wk = "asked" => ENABLED WorkerServes

\* One thread waits for the worker with both locks held while the two other
\* threads wait for the state lock, one of them in cancel.
C35_Witness ==
    /\ \E t \in LockThreads :
          /\ Holds(t, "state") /\ Holds(t, "recorder")
          /\ lk_th[t].pc > 0 /\ NextInstr(t) = AwaitWorker
    /\ wk = "asked"
    /\ \E t \in LockThreads :
          /\ lk_th[t].name = "cancel"
          /\ lk_th[t].pc = 1
    /\ \E t \in LockThreads :
          /\ lk_th[t].name = "stop_and_transcribe"
          /\ lk_th[t].pc = 1

(***************************************************************************)
(* shortcut.rs, handle_shortcut_event: the press handler, the release      *)
(* tasks it spawns, and the tray icon and overlay they set (tray.rs,       *)
(* overlay.rs).  The manager is seen through the results of its calls.     *)
(***************************************************************************)
MaxReleases == 3

ReleaseTasks == 1..MaxReleases

\* tray.rs, change_tray_icon (lines 126-149) with overlay.rs, show_overlay,
\* update_overlay_state and hide_overlay: the icon last set and the overlay
\* state last announced.
Ui(tray, overlay) == [tray |-> tray, overlay |-> overlay]

ShortcutInit ==
    /\ sc_state = "Idle"
    /\ sc_ui = Ui("Idle", "Hidden")
    /\ sc_key = FALSE
    /\ sc_press = "idle"
    /\ sc_tasks = [k \in ReleaseTasks |-> "unspawned"]
    /\ sc_n = 0

\* ShortcutState::Pressed, lines 56-64 with recording_manager.rs 140-164:
\* start_recording succeeds only from Idle, and may fail there (no device);
\* on Err the handler logs and returns.
PressStart ==
    /\ ~sc_key
    /\ sc_press = "idle"
    /\ sc_n < MaxReleases
    /\ sc_key' = TRUE
    /\ \/ /\ sc_state = "Idle"
          /\ sc_state' = "Recording"
          /\ sc_press' = "started"
       \/ UNCHANGED <<sc_state, sc_press>>
    /\ UNCHANGED <<sc_ui, sc_tasks, sc_n>>
    /\ UNCHANGED <<vadVars, workerVars, mgrVars, fnVars, lockVars>>

\* Lines 66-69: after Ok the tray icon and the overlay are set to Recording.
PressUi ==
    /\ sc_press = "started"
    /\ sc_ui' = Ui("Recording", "Recording")
    /\ sc_press' = "idle"
    /\ UNCHANGED <<sc_state, sc_key, sc_tasks, sc_n>>
    /\ UNCHANGED <<vadVars, workerVars, mgrVars, fnVars, lockVars>>

\* ShortcutState::Released, lines 71-77: the task is spawned and the handler
\* returns.
Release ==
    /\ sc_key
    /\ sc_press = "idle"
    /\ sc_key' = FALSE
    /\ sc_n' = sc_n + 1
    /\ sc_tasks' = [sc_tasks EXCEPT ![sc_n + 1] = "spawned"]
    /\ UNCHANGED <<sc_state, sc_ui, sc_press>>
    /\ UNCHANGED <<vadVars, workerVars, mgrVars, fnVars, lockVars>>

\* Lines 78-80: the task first sets the tray icon and the overlay to
\* Transcribing.
TaskUiTranscribing(k) ==
    /\ sc_tasks[k] = "spawned"
    /\ sc_ui' = Ui("Transcribing", "Transcribing")
    /\ sc_tasks' = [sc_tasks EXCEPT ![k] = "calling"]
    /\ UNCHANGED <<sc_state, sc_key, sc_press, sc_n>>
    /\ UNCHANGED <<vadVars, workerVars, mgrVars, fnVars, lockVars>>

\* Line 84 with recording_manager.rs 168-189: stop_and_transcribe returns
\* Err at once unless the state is Recording; from Recording it either moves
\* to Transcribing or returns the Err of stop() or close() with the state
\* untouched.
TaskStopBegin(k) ==
    /\ sc_tasks[k] = "calling"
    /\ \/ /\ sc_state = "Recording"
          /\ sc_state' = "Transcribing"
          /\ sc_tasks' = [sc_tasks EXCEPT ![k] = "transcribing"]
       \/ /\ sc_tasks' = [sc_tasks EXCEPT ![k] = "returned"]
          /\ UNCHANGED sc_state
    /\ UNCHANGED <<sc_ui, sc_key, sc_press, sc_n>>
    /\ UNCHANGED <<vadVars, workerVars, mgrVars, fnVars, lockVars>>

\* recording_manager.rs 196, 259, 281: the call writes Idle and returns.
TaskStopReturn(k) ==
    /\ sc_tasks[k] = "transcribing"
    /\ sc_state' = "Idle"
    /\ sc_tasks' = [sc_tasks EXCEPT ![k] = "returned"]
    /\ UNCHANGED <<sc_ui, sc_key, sc_press, sc_n>>
    /\ UNCHANGED <<vadVars, workerVars, mgrVars, fnVars, lockVars>>

\* Lines 106-108: whatever the call returned, the task sets the tray icon to
\* Idle and hides the overlay.
TaskUiReset(k) ==
    /\ sc_tasks[k] = "returned"
    /\ sc_ui' = Ui("Idle", "Hidden")
    /\ sc_tasks' = [sc_tasks EXCEPT ![k] = "done"]
    /\ UNCHANGED <<sc_state, sc_key, sc_press, sc_n>>
    /\ UNCHANGED <<vadVars, workerVars, mgrVars, fnVars, lockVars>>

ReleaseTasksFinished ==
    \A k \in ReleaseTasks : sc_tasks[k] \in {"unspawned", "done"}

\* (C40) The tray icon and the overlay are switched to Recording only after
\* start_recording succeeded, and once all release tasks have finished the
\* UI agrees with ManagerState: the Idle reset of an earlier release task
\* never overwrites the Recording UI of a newer press whose recording is
\* still active.
C40_UiAgreesWithManagerState ==
    /\ [][sc_ui'.tray = "Recording" /\ sc_ui.tray # "Recording"
             => sc_press = "started"]_vars
    /\ [](ReleaseTasksFinished /\ sc_press = "idle"
             => sc_ui.tray = sc_state)

FnIdle ==
    ResampleIdle /\ CallbackIdle /\ ConfigIdle /\ WavIdle /\ LockInit
    /\ ShortcutInit

Init == ManagerInit /\ VadDefault /\ RecorderInit /\ FnIdle
Next ==
    \/ StartRecording
    \/ EngineStreamStarts \/ EngineStreamFails \/ EngineCapture
    \/ \E t \in Tasks : StopBegin(t)
    \/ \E t \in Tasks : Process(t)
    \/ \E t \in Tasks : BackendReturns(t)
    \/ \E t \in Tasks : Finish(t)
    \/ Cancel
    \/ GetState
    \/ \E id \in ModelIds \cup {"unknown"} : SetSelectedModel(id)
    \/ UnloadLocalModel
    \/ \E b \in BOOLEAN : SetVadEnabled(b)
    \/ EnsureVadModel
Spec == Init /\ [][Next]_vars

(***************************************************************************)
(* Properties of the RecordingManager, checked under Spec.                 *)
(***************************************************************************)
\* The backend request of task t is awaited.
TranscriptionInFlight(t) == tasks[t].pc = "awaiting"

\* C1: at most one recording/transcription cycle is in progress at a time:
\* no recording is running (engine in the slot, state Recording) while the
\* transcription of an earlier cycle is still in flight.
C1_OneCycleAtATime ==
    ~(/\ state = "Recording"
      /\ recorder # NoRecorder
      /\ \E t \in Tasks : /\ TranscriptionInFlight(t)
                          /\ tasks[t].audio.cycle < recorder.id)

\* The causes C2 lists; a call rejected for the state it found (C3, C4)
\* is not among them.
ListedFailure ==
    /\ ret.op \in {"start_recording", "stop_and_transcribe"}
    /\ ~ret.res.ok
    /\ ret.res.err \notin {"NotIdle", "NotRecording"}

\* C2: when start_recording or stop_and_transcribe returns a failure
\* (capture stop error, missing recorder, model not found, empty audio, no
\* speech, backend error), ManagerState is Idle afterwards.
C2_FailureLeavesIdle ==
    ListedFailure => ret.after = "Idle"

\* C3: start_recording called while Recording or Transcribing leaves the
\* state and the capture slot unchanged and creates, opens and starts no
\* capture engine.
C3_StartWhileBusyChangesNothing ==
    (ret.op = "start_recording" /\ ret.began \in {"Recording", "Transcribing"})
        => /\ ret.after = ret.began
           /\ ret.slot_same
           /\ ret.engines = 0
           /\ ret.sent = <<>>

\* start_recording has been rejected while a transcription is in flight.
C3_Witness ==
    /\ ret.op = "start_recording"
    /\ ret.began = "Transcribing"
    /\ ~ret.res.ok
    /\ state = "Transcribing"
    /\ \E t \in Tasks : tasks[t].pc = "awaiting"

\* C4: stop_and_transcribe called while Idle fails with the not-recording
\* error, leaves the state Idle and the capture slot unchanged, sends no
\* command to a capture engine and does not call the backend.
C4_StopWhileIdleRejected ==
    (ret.op = "stop_and_transcribe" /\ ret.began = "Idle")
        => /\ ret.res = MFail("NotRecording")
           /\ ret.after = "Idle"
           /\ ret.slot_same
           /\ ret.sent = <<>>
           /\ ~ret.backend

\* stop_and_transcribe has been rejected in Idle after a completed cycle.
C4_Witness ==
    /\ ret.op = "stop_and_transcribe"
    /\ ret.began = "Idle"
    /\ ret.res.err = "NotRecording"
    /\ state = "Idle"
    /\ n_engines > 0


\* C11: cancel() returns without error from any state and any condition of
\* the worker; when it returns the state is Idle, the slot is empty, and an
\* engine that was in the slot has been sent Stop and Shutdown.
C11_CancelLeavesIdleAndEmpty ==
    ret.op = "cancel" =>
        /\ ret.res.ok
        /\ ret.after = "Idle"
        /\ ret.slot_empty
        /\ ret.slot_same \/ ret.sent = <<"Stop", "Shutdown">>

\* cancel() has returned after finding an engine recording into the slot.
C11_Witness ==
    /\ ret.op = "cancel"
    /\ ret.began = "Recording"
    /\ ~ret.slot_same
    /\ state = "Idle"
    /\ recorder = NoRecorder

\* C12: once cancel() has returned for a cycle, that cycle's audio is not
\* passed to a backend afterwards and no transcription text for it is about
\* to be returned by stop_and_transcribe.
C12_CancelDiscardsAudio ==
    \A t \in Tasks :
        /\ tasks[t].cancelled = "before_dispatch" => ~tasks[t].backend
        /\ (tasks[t].cancelled # "no" /\ tasks[t].pc = "finishing")
               => ~tasks[t].res.ok

\* C13: a stop_and_transcribe that reached the backend writes Idle when the
\* backend call has completed and returns the backend's result unchanged;
\* the backend call returning, Transcribing leads to Idle.
C13_BackendCompletionLeadsToIdle ==
    /\ [][\A t \in Tasks :
            (tasks[t].pc = "finishing" /\ tasks'[t].pc = "idle")
                => /\ state' = "Idle"
                   /\ ret'.res = tasks[t].res
                   /\ ret'.after = "Idle"]_vars
    /\ (state = "Transcribing") ~> (state = "Idle")

\* A backend error has been returned and the state is Idle.
C13_Witness ==
    /\ ret.op = "stop_and_transcribe"
    /\ ret.backend
    /\ ret.res.err = "BackendError"
    /\ ret.after = "Idle"
    /\ state = "Idle"

\* C14: when the capture engine returns an empty buffer, stop_and_transcribe
\* fails with NoAudioRecorded, the state is Idle and the slot empty when it
\* returns, and neither the VAD stage nor a backend has run.
C14_EmptyAudioRejected ==
    (ret.op = "stop_and_transcribe" /\ ~ret.slot_same /\ ret.audio.raw = 0)
        => /\ ret.res = MFail("NoAudioRecorded")
           /\ ret.after = "Idle"
           /\ ret.slot_empty
           /\ ret.audio.vad = "none"
           /\ ~ret.backend

\* C15: when the VAD stage succeeds and keeps nothing, stop_and_transcribe
\* fails with NoSpeechDetected, the state is Idle afterwards and no backend
\* was called.
C15_NoSpeechRejected ==
    (ret.op = "stop_and_transcribe" /\ ret.audio.vad = "applied"
        /\ ret.audio.n = 0)
        => /\ ret.res = MFail("NoSpeechDetected")
           /\ ret.after = "Idle"
           /\ ~ret.backend

\* A recording of two blocks was filtered down to nothing.
C15_Witness ==
    /\ ret.op = "stop_and_transcribe"
    /\ ret.audio.vad = "applied"
    /\ ret.audio.n = 0
    /\ ret.audio.raw = 2
    /\ state = "Idle"

\* C16: with the VAD flag enabled, a non-empty recording reaches a backend
\* only after the VAD stage has run on it, whether or not ensure_vad_model
\* was called before.
C16_EnabledVadAlwaysApplied ==
    \A t \in Tasks :
        tasks[t].backend => tasks[t].audio.vad \in {"disabled", "applied",
                                                    "failed"}

\* C17: when the VAD stage fails, stop_and_transcribe does not fail because
\* of it: the whole unfiltered audio goes to the backend and the state is
\* Idle when the call returns.
C17_VadFailureUsesUnfiltered ==
    /\ \A t \in Tasks :
          (tasks[t].pc # "idle" /\ tasks[t].audio.vad = "failed")
              => /\ tasks[t].backend
                 /\ tasks[t].audio.n = tasks[t].audio.raw
    /\ (ret.op = "stop_and_transcribe" /\ ret.audio.vad = "failed")
          => /\ ret.backend
             /\ ret.audio.n = ret.audio.raw
             /\ ret.after = "Idle"
             /\ ret.res.ok \/ ret.res.err \in {"BackendError", "NoModelLoaded"}

\* A recording of two blocks went through a failing VAD stage and was
\* transcribed whole.
C17_Witness ==
    /\ ret.op = "stop_and_transcribe"
    /\ ret.audio.vad = "failed"
    /\ ret.audio.raw = 2
    /\ ret.res.ok
    /\ ret.res.text.n = 2

\* C18: when opening or starting the capture engine fails in a
\* start_recording called in Idle, the call returns the error, the state
\* stays Idle, the slot is left as it was, no worker thread is left running
\* and no recording-started event is emitted.
C18_FailedStartChangesNothing ==
    (ret.op = "start_recording" /\ ret.began = "Idle" /\ ~ret.res.ok)
        => /\ ret.res.err \in {"OpenFailed", "StartFailed"}
           /\ ret.after = "Idle"
           /\ ret.slot_same
           /\ ret.sent = <<>>
           /\ ret.workers_left = 0
           /\ ret.events = <<>>

\* start() failed on a freshly opened engine; the slot is still empty.
C18_Witness ==
    /\ ret.op = "start_recording"
    /\ ret.res.err = "StartFailed"
    /\ ret.engines = 1
    /\ ret.slot_empty
    /\ state = "Idle"
    /\ recorder = NoRecorder

\* C19: start_recording called while the state is not Idle returns success.
C19_StartWhileBusyReturnsOk ==
    (ret.op = "start_recording" /\ ret.began # "Idle") => ret.res.ok

C21_NoLockHeldWhileTranscribing ==
    /\ ((\E t \in Tasks : tasks[t].pc \in {"stopped", "awaiting"}) /\ MayCall)
          => ENABLED GetState
    /\ ret.op = "get_state" => ret.res.ok /\ ret.after = ret.began
    /\ (ret.op = "start_recording" /\ ret.began # "Idle")
          => ~ret.res.ok /\ ret.after = ret.began /\ ret.slot_same

\* get_state() returned Transcribing while the backend request was awaited.
C21_Witness ==
    /\ ret.op = "get_state"
    /\ ret.began = "Transcribing"
    /\ state = "Transcribing"
    /\ \E t \in Tasks : tasks[t].pc = "awaiting"

\* C34: whenever no operation holds the state lock, the capture slot holds
\* an engine if and only if ManagerState is Recording, for every
\* interleaving of start_recording, stop_and_transcribe (its late write of
\* Idle included) and cancel.
C34_SlotFilledIffRecording ==
    StateLockFree => (recorder # NoRecorder <=> state = "Recording")

\* A call of set_selected_model returns in this step.
SetSelectedModelReturns ==
    ret'.seq # ret.seq /\ ret'.op = "set_selected_model"

\* C30: when set_selected_model fails (unknown id, local model not
\* downloaded, load error) the selected model id is unchanged and the model
\* that was loaded is still loaded; the selection changes only in a call
\* that succeeds, and to a local model only with that model loaded.
C30_FailedSelectionKeepsBackend ==
    /\ [][(SetSelectedModelReturns /\ ~ret'.res.ok) =>
             UNCHANGED <<selected_model, current_model_id>>]_vars
    /\ [][selected_model' # selected_model =>
             /\ SetSelectedModelReturns
             /\ ret'.res.ok
             /\ EngineType(selected_model') # "Cloud" =>
                   current_model_id' = selected_model']_vars

\* The local model is selected and loaded, and a later set_selected_model
\* failed because its files are no longer on disk.
C30_Witness ==
    /\ ret.op = "set_selected_model"
    /\ ret.res = MFail("NotDownloaded")
    /\ selected_model = "parakeet-v3"
    /\ current_model_id = "parakeet-v3"

\* (C39) After any sequence of set_selected_model, unload_local_model and
\* stop_and_transcribe: whenever the selected id names a local model the
\* local transcriber has exactly that model loaded, so that no dispatch
\* fails with 'No model loaded'; and when a set_selected_model has selected
\* the cloud no local model remains loaded.
C39_SelectedLocalModelIsLoaded ==
    /\ EngineType(selected_model) # "Cloud" => current_model_id = selected_model
    /\ ret.op = "stop_and_transcribe" => ret.res # MFail("NoModelLoaded")
    /\ (ret.op = "set_selected_model" /\ ret.res.ok /\ selected_model = "cloud")
          => current_model_id = "none"

\* stop_and_transcribe past its locked block is scheduled until it returns,
\* and the awaited backend request completes.
FairSpec ==
    /\ Spec
    /\ \A t \in Tasks : /\ WF_vars(Process(t))
                        /\ WF_vars(BackendReturns(t))
                        /\ WF_vars(Finish(t))

InitWorker == RecorderInit /\ VadDefault /\ ManagerInit /\ FnIdle
NextWorker ==
    \/ Open \/ Start \/ StopSend \/ StopReturn \/ CloseSend \/ CloseReturn
    \/ WorkerStreamStarts \/ WorkerStreamFails \/ AudioCallback
    \/ WorkerRecv \/ WorkerTimeout \/ WorkerCmd
SpecWorker == InitWorker /\ [][NextWorker]_vars

\* The worker thread is scheduled, and a caller blocked in recv or join
\* resumes once the reply or the thread's return is there.
FairSpecWorker ==
    /\ SpecWorker
    /\ WF_vars(WorkerStreamStarts \/ WorkerStreamFails)
    /\ WF_vars(WorkerRecv)
    /\ WF_vars(WorkerTimeout)
    /\ WF_vars(WorkerCmd)
    /\ WF_vars(StopReturn)
    /\ WF_vars(CloseReturn)

\* The stop and close calls cancel() makes on the recorder (C11) do not
\* block forever, whatever the worker thread is doing.
StopAndCloseReturn ==
    (ctl_pc \in {"stop_wait", "join_wait"}) ~> (ctl_pc = "idle")

InitVad == VadInit /\ RecorderInit /\ ManagerInit /\ FnIdle
NextVad == PushFrame \/ Reset
SpecVad == InitVad /\ [][NextVad]_vars

InitLocks == VadDefault /\ RecorderInit /\ ManagerInit /\ FnIdle

NextLocks ==
    \/ \E t \in LockThreads : LockCall(t)
    \/ \E t \in LockThreads : LockAcquire(t)
    \/ \E t \in LockThreads : LockRelease(t)
    \/ \E t \in LockThreads : LockAsk(t)
    \/ \E t \in LockThreads : LockAwait(t)
    \/ \E t \in LockThreads : LockRun(t)
    \/ WorkerServes

SpecLocks == InitLocks /\ [][NextLocks]_vars

InitShortcut == VadDefault /\ RecorderInit /\ ManagerInit /\ FnIdle

NextShortcut ==
    \/ PressStart
    \/ PressUi
    \/ Release
    \/ \E k \in ReleaseTasks : TaskUiTranscribing(k)
    \/ \E k \in ReleaseTasks : TaskStopBegin(k)
    \/ \E k \in ReleaseTasks : TaskStopReturn(k)
    \/ \E k \in ReleaseTasks : TaskUiReset(k)

SpecShortcut == InitShortcut /\ [][NextShortcut]_vars

\* filter_with_vad on recordings of up to MaxChunks frames.
InitFilter == VadDefault /\ RecorderInit /\ ManagerInit /\ FnIdle
NextFilter == FilterChunk
SpecFilter == InitFilter /\ [][NextFilter]_vars

\* resample_to_16k applied to every input up to MaxSamples samples.
InitResample ==
    /\ ResampleInit /\ CallbackIdle /\ ConfigIdle /\ WavIdle
    /\ VadDefault /\ RecorderInit /\ ManagerInit /\ LockInit /\ ShortcutInit
NextResample == ResampleTo16k
SpecResample == InitResample /\ [][NextResample]_vars

\* The input callback of a stream of every format and channel count.
InitCallback ==
    /\ CallbackInit /\ ResampleIdle /\ ConfigIdle /\ WavIdle
    /\ VadDefault /\ RecorderInit /\ ManagerInit /\ LockInit /\ ShortcutInit
NextCallback == BuildStreamCallback
SpecCallback == InitCallback /\ [][NextCallback]_vars

\* get_perferred_config applied to every device of up to MaxRanges ranges.
InitConfig ==
    /\ ConfigInit /\ ResampleIdle /\ CallbackIdle /\ WavIdle
    /\ VadDefault /\ RecorderInit /\ ManagerInit /\ LockInit /\ ShortcutInit
NextConfig == GetPerferredConfig
SpecConfig == InitConfig /\ [][NextConfig]_vars

\* samples_to_wav applied to every input up to MaxWavSamples samples.
InitWav ==
    /\ WavInit /\ ResampleIdle /\ CallbackIdle /\ ConfigIdle
    /\ VadDefault /\ RecorderInit /\ ManagerInit /\ LockInit /\ ShortcutInit
NextWav == SamplesToWav
SpecWav == InitWav /\ [][NextWav]_vars

=============================================================================
